---- MODULE Spec2Model ----
(***************************************************************************)
(* Model of f5-cloud-libs-gce: the failover script (scripts/failover.js)   *)
(* and the GCE cloud provider (lib/gceCloudProvider.js).                   *)
(*                                                                         *)
(* Several state machines share the module, one specification each:        *)
(*   SpecFailover  the failover run: updateNics and updateFwdRules         *)
(*   SpecElect     GceCloudProvider.prototype.electPrimary                 *)
(*   SpecInst      GceCloudProvider.prototype.getInstances                 *)
(*   SpecPrimary   GceCloudProvider.prototype.primaryElected               *)
(*   SpecPrimaryPeers  primaryElected next to other instances' putInstance *)
(*   SpecPull      PubSub.prototype.pull and acknowledge                   *)
(*   SpecMsg       getMessages and sendMessage over one PubSub client      *)
(*   SpecUcs       GceCloudProvider.prototype.storeUcs                     *)
(*   SpecTag       GceCloudProvider.prototype.tagPrimaryInstance           *)
(*   SpecUri       GceCloudProvider.prototype.getDataFromUri               *)
(*   SpecStored    GceCloudProvider.prototype.getStoredUcs                 *)
(*                                                                         *)
(* JavaScript values are modelled as follows.  An object is a record; a    *)
(* property that is undefined is a field that is absent from the record.   *)
(* An array is a sequence.  A string that the code only compares for       *)
(* equality is a TLA+ string; a string the code searches with              *)
(* String.includes is a sequence of tokens, so that the search is a real   *)
(* substring search.  An IP string "a.b.c.d/n" is the record               *)
(* [oct |-> <<a,b,c,d>>, suffix |-> <<n>>], "a.b.c.d" has suffix <<>>.     *)
(***************************************************************************)
EXTENDS Integers, Sequences, FiniteSets, TLC

VARIABLES
    \* ---- failover.js ------------------------------------------------
    tgStats,            \* bigip.list('/tm/cm/traffic-group/stats').entries
    virtualAddresses,   \* bigip.list('/tm/ltm/virtual-address')
    liveVms,            \* GCE: the deployment's VMs and their NICs
    liveRules,          \* GCE: the region's forwarding rules
    targetInstances,    \* GCE: the zone's target instances
    deployedVms,        \* GCE: the deployment's VMs before the first run
    run,                \* number of failover runs started
    mainPc,             \* position of the main promise chain
    fetchedVms,         \* the VM list as getVmsByTag returned it in this run
    fetchedRules,       \* the rules as getFwdRules returned them in this run
    vms,                \* the same list after updateNics mutated it in place
    nicPc,              \* position of updateNics' promise chain
    disassociateArr,    \* updateNics: [vmName, nicName, nic] to disassociate
    associateArr,       \* updateNics: [vmName, nicName, nic] to associate
    disOps,             \* one retrier per entry of disassociateArr
    assocOps,           \* one retrier per entry of associateArr
    fwdPc,              \* position of updateFwdRules' promise chain
    fwdRulesToUpdate,   \* updateFwdRules: [ruleName, selfLink] to set
    fwdOps,             \* one retrier per entry of fwdRulesToUpdate
    prevRun,            \* outcome of the run before this one, and its updates
    \* ---- gceCloudProvider.js: electPrimary ---------------------------
    instances,          \* the dictionary passed in, as <<id, instance>> pairs
                        \* in Object.keys order
    electPc,            \* "idle" before the call, "done" after it
    primaryId,          \* what the returned promise resolved with
    \* ---- gceCloudProvider.js: getInstances ---------------------------
    instanceGroupVms,   \* GCE: the VMs of the instance group
    externalTag,        \* options.externalTag was given
    externalVms,        \* GCE: what getVmsByTag(options.externalTag) finds
    instanceFiles,      \* bucket: instances/<id>, as <<id, contents>> pairs
    publicKeyFiles,     \* bucket: the ids with a public_keys/<id> object
    giPc,               \* position of getInstances' promise chain
    gceInstanceIds,     \* names of the group VMs with a valid status
    instancesFromDb,    \* what getInstancesFromDb resolved with
    instancesOut,       \* the dictionary getInstances builds and returns
    idsToDelete,        \* ids queued for deleteInstances
    instancesToRevoke,  \* this.instancesToRevoke
    deleteOps,          \* the file.delete() calls deleteInstances issued
    \* ---- gceCloudProvider.js: primaryElected -------------------------
    electedId,          \* the instanceId primaryElected was called with
    topics,             \* pub/sub: the topics that exist
    subscriptions,      \* pub/sub: the subscriptions that exist
    pePc,               \* position of primaryElected's promise chain
    createTopicOps,     \* the createTopic calls issued
    createSubscriptionOps, \* the createSubscription calls issued
    putOps,             \* the putInstance calls issued
    \* ---- gceAutoscaleProvider.js: PubSub.pull -----------------------
    backlog,            \* pub/sub: the messages of the subscription
    published,          \* number of messages published so far
    pulls,              \* number of pull calls so far
    pullPc,             \* position of pull's promise chain
    receivedMessages,   \* data.receivedMessages of the current pull
    messages,           \* pull's local array of decoded messages
    ackOps,             \* the acknowledge request the current pull issued
    pullResult,         \* what the current pull resolved with
    handed,             \* per resolved pull, the message ids it returned
    \* ---- gceCloudProvider.js: getMessages, sendMessage; PubSub client --
    initialized,        \* PubSub: this.initialized
    accessToken,        \* PubSub: whether this.accessToken is set
    initRuns,           \* number of initializations started on the client
    inbox,              \* pub/sub: the messages of each subscription
    outbox,             \* pub/sub: the messages published, with their topic
    msgCalls,           \* number of getMessages / sendMessage calls so far
    msgCall,            \* the call in progress and its arguments
    msgPc,              \* position of the call's promise
    psOps,              \* the PubSub operations the call started
    msgResult,          \* what getMessages resolved with
    \* ---- gceCloudProvider.js: storeUcs -----------------------------
    backupFiles,        \* bucket: the objects of backup/, in name order
    ucsFile,            \* basename of the file storeUcs was called with
    maxCopies,          \* storeUcs' maxCopies
    ucsPc,              \* position of storeUcs' promise chain
    ucsListing,         \* what getFiles resolved with
    metadataResults,    \* the sorted metadata
    ucsDeleteOps,       \* the file.delete() calls deleteOldestObjects issued
    \* ---- gceCloudProvider.js: tagPrimaryInstance -------------------
    vmTags,             \* GCE: each VM's tags and tags fingerprint
    tagInstances,       \* the keys of the instances argument
    tagPrimaryIid,      \* the primaryIid argument
    tagPc,              \* position of tagPrimaryInstance's promise chain
    tagResponses,       \* what the getTags calls resolved with
    setTagsOps,         \* the setTags calls issued
    \* ---- gceCloudProvider.js: getDataFromUri -------------------------------
    uri,                \* the URI getDataFromUri is called with
    uriPc,              \* position of getDataFromUri's promise chain
    uriRead,            \* the getData call issued: file name, options, bucket read
    uriResult,          \* how getDataFromUri settled
    \* ---- gceCloudProvider.js: getStoredUcs ---------------------------------
    storedFiles,        \* the objects under backup/, in listing order
    gsPc,               \* position of getStoredUcs' promise chain
    gsResults,          \* what q.all(metadataPromises) resolved with
    gsMetadataResults,  \* metadataResults after the sort
    gsResult            \* how getStoredUcs settled

failoverVars == <<tgStats, virtualAddresses, deployedVms, liveVms, liveRules,
                  targetInstances,
                  run, mainPc, fetchedVms, fetchedRules, vms, nicPc,
                  disassociateArr, associateArr, disOps, assocOps,
                  fwdPc, fwdRulesToUpdate, fwdOps, prevRun>>

electVars == <<instances, electPc, primaryId>>

instVars == <<instanceGroupVms, externalTag, externalVms, instanceFiles,
              publicKeyFiles, giPc, gceInstanceIds, instancesFromDb, instancesOut,
              idsToDelete, instancesToRevoke, deleteOps>>

primaryVars == <<electedId, topics, subscriptions, pePc, createTopicOps,
                 createSubscriptionOps, putOps>>

pullVars == <<backlog, published, pulls, pullPc, receivedMessages, messages,
              ackOps, pullResult, handed>>

msgVars == <<initialized, accessToken, initRuns, inbox, outbox, msgCalls, msgCall,
             msgPc, psOps, msgResult>>

ucsVars == <<backupFiles, ucsFile, maxCopies, ucsPc, ucsListing, metadataResults,
             ucsDeleteOps>>

tagVars == <<vmTags, tagInstances, tagPrimaryIid, tagPc, tagResponses, setTagsOps>>

uriVars == <<uri, uriPc, uriRead, uriResult>>

storedVars == <<storedFiles, gsPc, gsResults, gsMetadataResults, gsResult>>

vars == <<failoverVars, electVars, instVars, primaryVars, pullVars, msgVars,
          ucsVars, tagVars, uriVars, storedVars>>

nonFailoverVars == <<electVars, instVars, primaryVars, pullVars, msgVars,
                     ucsVars, tagVars, uriVars, storedVars>>
nonElectVars == <<failoverVars, instVars, primaryVars, pullVars, msgVars,
                  ucsVars, tagVars, uriVars, storedVars>>
nonInstVars == <<failoverVars, electVars, primaryVars, pullVars, msgVars,
                 ucsVars, tagVars, uriVars, storedVars>>
\* primaryElected reads and writes the same bucket as getInstances.
nonPrimaryVars == <<failoverVars, electVars, instanceGroupVms, externalTag,
                    externalVms, publicKeyFiles, giPc, gceInstanceIds,
                    instancesOut, idsToDelete, instancesToRevoke, deleteOps,
                    pullVars, msgVars, ucsVars, tagVars, uriVars, storedVars>>
nonPullVars == <<failoverVars, electVars, instVars, primaryVars, msgVars,
                 ucsVars, tagVars, uriVars, storedVars>>
nonMsgVars == <<failoverVars, electVars, instVars, primaryVars, pullVars,
                ucsVars, tagVars, uriVars, storedVars>>
nonUcsVars == <<failoverVars, electVars, instVars, primaryVars, pullVars,
                msgVars, tagVars, uriVars, storedVars>>
nonTagVars == <<failoverVars, electVars, instVars, primaryVars, pullVars,
                msgVars, ucsVars, uriVars, storedVars>>
nonUriVars == <<failoverVars, electVars, instVars, primaryVars, pullVars,
                msgVars, ucsVars, tagVars, storedVars>>
nonStoredVars == <<failoverVars, electVars, instVars, primaryVars, pullVars,
                   msgVars, ucsVars, tagVars, uriVars>>

(***************************************************************************)
(* Generic helpers for JavaScript arrays and strings.                      *)
(***************************************************************************)

\* String.prototype.includes on token sequences.
Includes(s, t) ==
    \E i \in 0..(Len(s) - Len(t)) : SubSeq(s, i + 1, i + Len(t)) = t

\* Array.prototype.splice(i, 1) with a 1-based index.
Splice1(arr, k) == SubSeq(arr, 1, k - 1) \o SubSeq(arr, k + 1, Len(arr))

\* The elements of a sequence as a set.
Range(s) == {s[i] : i \in 1..Len(s)}

RECURSIVE Pow2(_)
Pow2(n) == IF n = 0 THEN 1 ELSE 2 * Pow2(n - 1)

\* x >> n for a non-negative x.
ShiftRight(x, n) == x \div Pow2(n)

\* Concatenation of a sequence of sequences, in order.
RECURSIVE Concat(_)
Concat(ss) == IF Len(ss) = 0 THEN <<>> ELSE Head(ss) \o Concat(Tail(ss))

(***************************************************************************)
(* failover.js: configuration of the run.                                  *)
(***************************************************************************)

\* instanceName, from getLocalMetadata('instance/name').
instanceName == "vm1"

\* globalSettings.hostname of this BIG-IP.
hostname == <<"bigip1">>

\* retrier: util.tryUntil(this, { maxRetries: 4, ... }).
maxRetries == 4

(***************************************************************************)
(* ipaddr.js as matchIps uses it.                                          *)
(***************************************************************************)

\* ipaddr.js matchCIDR(first, second, partSize, cidrBits): compares the
\* octets part by part, the last one under a shift.
RECURSIVE matchCIDR(_, _, _, _, _)
matchCIDR(first, second, partSize, cidrBits, part) ==
    IF cidrBits <= 0 THEN TRUE
    ELSE LET shift == IF partSize - cidrBits < 0 THEN 0 ELSE partSize - cidrBits
         IN  IF ShiftRight(first[part], shift) # ShiftRight(second[part], shift)
             THEN FALSE
             ELSE matchCIDR(first, second, partSize, cidrBits - partSize, part + 1)

\* ipaddr.parseCIDR of a string that holds a "/": [octets, prefix length].
parseCIDR(str) == [oct |-> str.oct, bits |-> str.suffix[1]]

(***************************************************************************)
(* failover.js: pure functions.                                            *)
(***************************************************************************)

\* One test of matchIps' inner loop: does the filter address lie in the range
\* of ip?  ip is an alias object {ipCidrRange} or a bare IP string.
ipMatchesFilter(ip, ipFilter) ==
    LET ipAddr0 == IF "ipCidrRange" \in DOMAIN ip THEN ip.ipCidrRange ELSE ip
        \* ipAddr.indexOf('/') === -1 ? `${ipAddr}/32` : ipAddr
        ipAddr == IF ipAddr0.suffix = <<>>
                  THEN [oct |-> ipAddr0.oct, suffix |-> <<32>>] ELSE ipAddr0
        ipAddrParsed == parseCIDR(ipAddr)
        ipFilterAddr0 == IF "address" \in DOMAIN ipFilter THEN ipFilter.address
                         ELSE ipFilter
        \* ipFilterAddr.split('/')[0], then ipaddr.parse
        ipFilterAddrParsed == ipFilterAddr0.oct
    IN  matchCIDR(ipFilterAddrParsed, ipAddrParsed.oct, 8, ipAddrParsed.bits, 1)

\* matchIps(ips, ipsFilter): the ips that contain some filter address, in order.
matchIps(ips, ipsFilter) ==
    SelectSeq(ips, LAMBDA ip :
        \E j \in 1..Len(ipsFilter) : ipMatchesFilter(ip, ipsFilter[j]))

\* getTgAddresses(): the addresses of the traffic groups this device is
\* active for, one entry per (virtual address, matching traffic group).
getTgAddresses ==
    LET active == SelectSeq(tgStats, LAMBDA e :
                      Includes(e.deviceName, hostname)
                      /\ e.failoverState = "active")
        myTrafficGroupsArr ==
            [i \in 1..Len(active) |-> [trafficGroup |-> active[i].trafficGroup]]
        perAddress(va) ==
            LET hits == SelectSeq(myTrafficGroupsArr, LAMBDA tg :
                            Includes(tg.trafficGroup, va.trafficGroup))
            IN  [i \in 1..Len(hits) |-> [address |-> va.address]]
    IN  IF Len(myTrafficGroupsArr) = 0 THEN <<>>
        ELSE IF Len(virtualAddresses) = 0 THEN <<>>
        ELSE Concat([i \in 1..Len(virtualAddresses) |->
                        perAddress(virtualAddresses[i])])

\* The inner forEach of the yank loop: theirAliasIps.forEach with splice(i, 1)
\* inside.  forEach visits index k only while k is still in the array, and i
\* counts the callbacks, so i = k; after a splice the next element has moved
\* to k and is not visited.
RECURSIVE yankOne(_, _, _)
yankOne(theirAliasIps, myIp, k) ==
    IF k > Len(theirAliasIps) THEN theirAliasIps
    ELSE IF myIp.ipCidrRange = theirAliasIps[k].ipCidrRange
         THEN yankOne(Splice1(theirAliasIps, k), myIp, k + 1)
         ELSE yankOne(theirAliasIps, myIp, k + 1)

\* The outer forEach of the yank loop: matchingAliasIps.forEach(myIp => ...).
RECURSIVE yankAll(_, _)
yankAll(theirAliasIps, matchingAliasIps) ==
    IF Len(matchingAliasIps) = 0 THEN theirAliasIps
    ELSE yankAll(yankOne(theirAliasIps, Head(matchingAliasIps), 1),
                 Tail(matchingAliasIps))

\* The alias ranges of a peer NIC that match an owned address (<<>> when the
\* NIC has no alias list or an empty one).
matchingOf(nic, trafficGroupIpArr) ==
    IF "aliasIpRanges" \in DOMAIN nic /\ Len(nic.aliasIpRanges) > 0
    THEN matchIps(nic.aliasIpRanges, trafficGroupIpArr)
    ELSE <<>>

\* Mutant of theirNicAfter: only the first matching range is yanked.
theirNicAfterYankFirst(nic, trafficGroupIpArr) ==
    LET matchingAliasIps == matchingOf(nic, trafficGroupIpArr)
    IN  IF Len(matchingAliasIps) > 0
        THEN [nic EXCEPT !.aliasIpRanges = yankAll(@, <<Head(matchingAliasIps)>>)]
        ELSE nic

\* A peer NIC after the theirVms loop: its matching ranges yanked in place.
theirNicAfter(nic, trafficGroupIpArr) ==
    LET matchingAliasIps == matchingOf(nic, trafficGroupIpArr)
    IN  IF Len(matchingAliasIps) > 0
        THEN [nic EXCEPT !.aliasIpRanges = yankAll(@, matchingAliasIps)]
        ELSE nic

\* aliasIpsArr: one entry per peer NIC with matching ranges, in loop order.
aliasIpsOf(theirVms, trafficGroupIpArr) ==
    Concat([v \in 1..Len(theirVms) |->
        LET nics == theirVms[v].networkInterfaces
            hit  == SelectSeq(nics, LAMBDA nic :
                        Len(matchingOf(nic, trafficGroupIpArr)) > 0)
        IN  [n \in 1..Len(hit) |->
                [vmName |-> theirVms[v].name,
                 nicName |-> hit[n].name,
                 aliasIpRanges |-> matchingOf(hit[n], trafficGroupIpArr)]]])

\* disassociateArr: the same peer NICs, each with its yanked alias list.
disassociateOf(theirVms, trafficGroupIpArr) ==
    Concat([v \in 1..Len(theirVms) |->
        LET nics == theirVms[v].networkInterfaces
            hit  == SelectSeq(nics, LAMBDA nic :
                        Len(matchingOf(nic, trafficGroupIpArr)) > 0)
        IN  [n \in 1..Len(hit) |->
                [vmName |-> theirVms[v].name,
                 nicName |-> hit[n].name,
                 nic |-> theirNicAfter(hit[n], trafficGroupIpArr)]]])

\* The entries of aliasIpsArr that updateNics adds to one of its own NICs.
aliasHits(nic, aliasIpsArr) ==
    SelectSeq(aliasIpsArr, LAMBDA ip : nic.name = ip.nicName)

\* One of this instance's NICs after the myVm loop: aliasIpRanges defaulted
\* to [] and every alias of the same-named entries of aliasIpsArr pushed.
myNicAfter(nic, aliasIpsArr) ==
    LET base  == IF "aliasIpRanges" \in DOMAIN nic THEN nic.aliasIpRanges ELSE <<>>
        hits  == aliasHits(nic, aliasIpsArr)
        added == Concat([i \in 1..Len(hits) |-> hits[i].aliasIpRanges])
    IN  [f \in (DOMAIN nic) \cup {"aliasIpRanges"} |->
            IF f = "aliasIpRanges" THEN base \o added ELSE nic[f]]

\* associateArr: this instance's NICs that received at least one entry.
associateOf(myVm, aliasIpsArr) ==
    LET nics == myVm.networkInterfaces
        hit  == SelectSeq(nics, LAMBDA nic : Len(aliasHits(nic, aliasIpsArr)) > 0)
    IN  [n \in 1..Len(hit) |->
            [vmName |-> myVm.name,
             nicName |-> hit[n].name,
             nic |-> myNicAfter(hit[n], aliasIpsArr)]]

\* Mutant of myVmIndex: the first VM of the list is taken for this instance.
myVmIndexFirst(vmList) == IF Len(vmList) > 0 THEN 1 ELSE 0

\* Index of the first VM named instanceName (myVms[0]), 0 when there is none.
myVmIndex(vmList) ==
    IF \E i \in 1..Len(vmList) : vmList[i].name = instanceName
    THEN CHOOSE i \in 1..Len(vmList) :
            /\ vmList[i].name = instanceName
            /\ \A j \in 1..(i - 1) : vmList[j].name # instanceName
    ELSE 0

\* The synchronous part of updateNics(vms): what it returns at once ("skipped"
\* is q(), "rejected" is q.reject), the list as mutated in place, and the two
\* operation lists it has built when it goes on to the updates.
updateNics(vmList) ==
    LET trafficGroupIpArr == getTgAddresses
        theirVms == SelectSeq(vmList, LAMBDA vm : vm.name # instanceName)
        me == myVmIndex(vmList)
        aliasIpsArr == aliasIpsOf(theirVms, trafficGroupIpArr)
        mutated == [i \in 1..Len(vmList) |->
            IF vmList[i].name # instanceName
            THEN [vmList[i] EXCEPT !.networkInterfaces =
                    [n \in 1..Len(@) |-> theirNicAfter(@[n], trafficGroupIpArr)]]
            ELSE IF i = me
            THEN [vmList[i] EXCEPT !.networkInterfaces =
                    [n \in 1..Len(@) |-> myNicAfter(@[n], aliasIpsArr)]]
            ELSE vmList[i]]
    IN  IF Len(trafficGroupIpArr) = 0
        THEN [pc |-> "skipped", vms |-> vmList,
              disassociateArr |-> <<>>, associateArr |-> <<>>]
        ELSE IF me = 0
        THEN [pc |-> "rejected", vms |-> vmList,
              disassociateArr |-> <<>>, associateArr |-> <<>>]
        ELSE [pc |-> "disassociate", vms |-> mutated,
              disassociateArr |-> disassociateOf(theirVms, trafficGroupIpArr),
              associateArr |-> associateOf(vmList[me], aliasIpsArr)]

\* Mutant of getOurTargetInstance: every target instance is taken for ours.
getOurTargetInstanceAny(tgtInstances) ==
    [i \in 1..Len(tgtInstances) |->
        [name |-> tgtInstances[i].name, selfLink |-> tgtInstances[i].selfLink]]

\* getOurTargetInstance(tgtInstances): the target instances whose .instance
\* URL ends in this instance's name.
getOurTargetInstance(tgtInstances) ==
    LET ours == SelectSeq(tgtInstances, LAMBDA tgt :
                    tgt.instance[Len(tgt.instance)] = instanceName)
    IN  [i \in 1..Len(ours) |-> [name |-> ours[i].name, selfLink |-> ours[i].selfLink]]

\* Mutant of updateFwdRules: a matched rule is queued whatever its target.
updateFwdRulesAnyTarget(rules, tgtInstances) ==
    LET trafficGroupIpArr == getTgAddresses
        ourTargetInstances == getOurTargetInstance(tgtInstances)
        ourTargetInstance == ourTargetInstances[1]
        toUpdate == SelectSeq(rules, LAMBDA rule :
                        Len(matchIps(<<rule.IPAddress>>, trafficGroupIpArr)) > 0)
    IN  IF Len(trafficGroupIpArr) = 0
        THEN [pc |-> "skipped", fwdRulesToUpdate |-> <<>>]
        ELSE IF Len(ourTargetInstances) = 0
        THEN [pc |-> "rejected", fwdRulesToUpdate |-> <<>>]
        ELSE [pc |-> "updating",
              fwdRulesToUpdate |-> [i \in 1..Len(toUpdate) |->
                  [name |-> toUpdate[i].name, target |-> ourTargetInstance.selfLink]]]

\* The synchronous part of updateFwdRules(fwdRules, targetInstances).
updateFwdRules(rules, tgtInstances) ==
    LET trafficGroupIpArr == getTgAddresses
        ourTargetInstances == getOurTargetInstance(tgtInstances)
        ourTargetInstance == ourTargetInstances[1]
        toUpdate == SelectSeq(rules, LAMBDA rule :
                        /\ Len(matchIps(<<rule.IPAddress>>, trafficGroupIpArr)) > 0
                        /\ ~Includes(rule.target, ourTargetInstance.name))
    IN  IF Len(trafficGroupIpArr) = 0
        THEN [pc |-> "skipped", fwdRulesToUpdate |-> <<>>]
        ELSE IF Len(ourTargetInstances) = 0
        THEN [pc |-> "rejected", fwdRulesToUpdate |-> <<>>]
        ELSE [pc |-> "updating",
              fwdRulesToUpdate |-> [i \in 1..Len(toUpdate) |->
                  [name |-> toUpdate[i].name, target |-> ourTargetInstance.selfLink]]]

(***************************************************************************)
(* failover.js: the inputs a run can meet.                                 *)
(***************************************************************************)

\* Number of failover runs a behaviour holds.
MaxRuns == 2

Ip(a, b, c, d) == [oct |-> <<a, b, c, d>>, suffix |-> <<>>]
Cidr(a, b, c, d, n) == [oct |-> <<a, b, c, d>>, suffix |-> <<n>>]
Alias(range) == [ipCidrRange |-> range]

\* Virtual addresses of the BIG-IP pair and forwarding-rule addresses.
AddrA == Ip(10, 0, 0, 5)
AddrB == Ip(10, 0, 1, 7)
AddrF == Ip(35, 1, 1, 1)
AddrG == Ip(35, 1, 1, 2)

\* Alias ranges found on NICs: RangeA and RangeAbare both hold AddrA, RangeB
\* holds AddrB, RangeC holds none of the addresses.
RangeA     == Alias(Cidr(10, 0, 0, 5, 32))
RangeAbare == Alias(Ip(10, 0, 0, 5))
RangeB     == Alias(Cidr(10, 0, 1, 0, 24))
RangeC     == Alias(Cidr(10, 0, 9, 9, 32))

tg1 == <<"/Common/", "traffic-group-1">>
tg2 == <<"/Common/", "traffic-group-2">>
devMe   == <<"/Common/", "bigip1">>
devPeer == <<"/Common/", "bigip2">>

\* entries of /tm/cm/traffic-group/stats: one per (traffic group, device).
TgEntries(active1, active2) ==
    << [deviceName |-> devMe, trafficGroup |-> tg1,
        failoverState |-> IF active1 = "me" THEN "active" ELSE "standby"],
       [deviceName |-> devPeer, trafficGroup |-> tg1,
        failoverState |-> IF active1 = "me" THEN "standby" ELSE "active"],
       [deviceName |-> devMe, trafficGroup |-> tg2,
        failoverState |-> IF active2 = "me" THEN "active" ELSE "standby"],
       [deviceName |-> devPeer, trafficGroup |-> tg2,
        failoverState |-> IF active2 = "me" THEN "standby" ELSE "active"] >>

AllVirtualAddresses ==
    << [address |-> AddrA, trafficGroup |-> tg1],
       [address |-> AddrB, trafficGroup |-> tg2],
       [address |-> AddrF, trafficGroup |-> tg1] >>

\* (tgStats, virtualAddresses) as read from the BIG-IP.
BigIpChoices ==
    { <<TgEntries("me", "me"), AllVirtualAddresses>>,
      <<TgEntries("peer", "me"), AllVirtualAddresses>>,
      <<TgEntries("peer", "peer"), AllVirtualAddresses>>,
      <<TgEntries("me", "me"), <<>>>> }

Nic(name, aliases) == [name |-> name, aliasIpRanges |-> aliases]
NicNoAlias(name) == [name |-> name]
Vm(name, nics) == [name |-> name, networkInterfaces |-> nics]

\* This instance in the deployment: absent, or with one or two NICs.
MyVmChoices ==
    { <<>>,
      <<Vm(instanceName, <<NicNoAlias("nic0")>>)>>,
      <<Vm(instanceName, <<Nic("nic0", <<RangeC>>), NicNoAlias("nic1")>>)>>,
      <<Vm(instanceName, <<Nic("nic1", <<>>)>>)>> }

\* The first peer: one NIC, nic0.
Peer2Choices ==
    { <<Vm("vm2", <<NicNoAlias("nic0")>>)>> }
    \cup { <<Vm("vm2", <<Nic("nic0", al)>>)>> :
            al \in { <<RangeC>>, <<RangeA, RangeC>>, <<RangeC, RangeA, RangeB>>,
                     <<RangeA, RangeA>>, <<RangeAbare, RangeA>> } }

\* The second peer: absent, or one NIC.
Peer3Choices ==
    { <<>>,
      <<Vm("vm3", <<Nic("nic1", <<RangeA, RangeC>>)>>)>> }

\* Target instances: the name is what rule.target is searched for.
TiMe   == <<"ti-", "1">>
TiPeer == <<"ti-", "2">>
TiLong == <<"ti-", "1", "0">>

\* A target instance resource; GCE forms selfLink from the resource's name.
SelfLink(name) == <<"zones/z/targetInstances/">> \o name
TargetInstance(name, vmName) ==
    [name |-> name, instance |-> <<"zones/z/instances/", vmName>>,
     selfLink |-> SelfLink(name)]
Rule(name, ip, target) == [name |-> name, IPAddress |-> ip, target |-> target]

\* (targetInstances.items, fwdRules.items) as GCE lists them.
GceRuleChoices ==
    { << <<TargetInstance(TiMe, instanceName), TargetInstance(TiPeer, "vm2")>>,
         <<>> >>,
      << <<TargetInstance(TiPeer, "vm2"), TargetInstance(TiMe, instanceName)>>,
         <<Rule("fr1", AddrF, SelfLink(TiMe)), Rule("fr2", AddrA, SelfLink(TiPeer))>> >>,
      << <<TargetInstance(TiMe, instanceName), TargetInstance(TiPeer, "vm2")>>,
         <<Rule("fr1", AddrF, SelfLink(TiPeer)), Rule("fr2", AddrG, SelfLink(TiPeer))>> >>,
      << <<TargetInstance(TiMe, instanceName), TargetInstance(TiLong, "vm2")>>,
         <<Rule("fr1", AddrF, SelfLink(TiLong))>> >>,
      << <<TargetInstance(TiPeer, "vm2")>>,
         <<Rule("fr1", AddrF, SelfLink(TiPeer))>> >> }

NoRules ==
    << <<TargetInstance(TiMe, instanceName), TargetInstance(TiPeer, "vm2")>>, <<>> >>

\* The states a run starts from, <<BIG-IP, VMs, GCE rules>>: every NIC layout
\* with no forwarding rule, every forwarding-rule layout with two NIC layouts,
\* and every NIC layout on a BIG-IP that owns no address.
FailoverScenes ==
    { <<b, me \o p2 \o p3, NoRules>> :
        b \in BigIpChoices, me \in MyVmChoices, p2 \in Peer2Choices,
        p3 \in Peer3Choices }
    \cup
    { <<b, v, g>> :
        b \in BigIpChoices,
        v \in { <<Vm("vm2", <<Nic("nic0", <<RangeA, RangeC>>)>>)>>,
                <<Vm(instanceName, <<NicNoAlias("nic0")>>),
                  Vm("vm2", <<Nic("nic0", <<RangeA, RangeC>>)>>)>> },
        g \in GceRuleChoices }

\* A retrier that has just issued its first attempt.
\* retrier(fnToTry, options, arr): options.retryIntervalMs, 15000 by default.
NewOp(options) ==
    [status |-> "inflight", retries |-> 0,
     retryIntervalMs |-> IF "retryIntervalMs" \in DOMAIN options
                         THEN options.retryIntervalMs ELSE 15000]
NewOps(arr, options) == [i \in 1..Len(arr) |-> NewOp(options)]

\* The options the NIC batches pass to retrier: {}.
NicRetryOptions == [none |-> TRUE]
\* The options the forwarding-rule batch passes: { retryIntervalMs }.
FwdRetryOptions == [retryIntervalMs |-> 60000]

AllOk(ops) == \A i \in 1..Len(ops) : ops[i].status = "ok"
SomeFailed(ops) == \E i \in 1..Len(ops) : ops[i].status = "failed"
NoneInflight(ops) == \A i \in 1..Len(ops) : ops[i].status # "inflight"

(***************************************************************************)
(* failover.js: the run as a state machine.                                *)
(***************************************************************************)

\* GCE applies updateNetworkInterface: the named NIC of the named VM becomes
\* the submitted NIC.
applyNic(live, req) ==
    [i \in 1..Len(live) |->
        IF live[i].name = req.vmName
        THEN [live[i] EXCEPT !.networkInterfaces =
                [n \in 1..Len(@) |-> IF @[n].name = req.nicName THEN req.nic ELSE @[n]]]
        ELSE live[i]]

\* GCE applies rule.setTarget(target).
applyRule(rules, req) ==
    [i \in 1..Len(rules) |->
        IF rules[i].name = req.name THEN [rules[i] EXCEPT !.target = req.target]
        ELSE rules[i]]

\* Mutant of retryOrReject: one retry more before giving up.
retryOnceMore(op) ==
    IF op.retries < maxRetries + 1
    THEN [op EXCEPT !.status = "inflight", !.retries = op.retries + 1]
    ELSE [op EXCEPT !.status = "failed"]

\* util.tryUntil after a failed attempt: try again while retries remain,
\* reject once maxRetries retries have been used.
retryOrReject(op) ==
    IF op.retries < maxRetries
    THEN [op EXCEPT !.status = "inflight", !.retries = op.retries + 1]
    ELSE [op EXCEPT !.status = "failed"]

\* No request outstanding and no promise callback pending.
Quiescent ==
    /\ NoneInflight(disOps) /\ NoneInflight(assocOps) /\ NoneInflight(fwdOps)
    /\ nicPc \notin {"disassociate", "associate"}
    /\ fwdPc # "updating"
    /\ mainPc # "updating"

InitFailoverVars ==
    /\ \E sc \in FailoverScenes :
          /\ tgStats = sc[1][1]
          /\ virtualAddresses = sc[1][2]
          /\ liveVms = sc[2]
          /\ deployedVms = sc[2]
          /\ targetInstances = sc[3][1]
          /\ liveRules = sc[3][2]
    /\ run = 0
    /\ mainPc = "idle"
    /\ fetchedVms = <<>> /\ fetchedRules = <<>> /\ vms = <<>>
    /\ nicPc = "none"
    /\ disassociateArr = <<>> /\ associateArr = <<>>
    /\ disOps = <<>> /\ assocOps = <<>>
    /\ fwdPc = "none"
    /\ fwdRulesToUpdate = <<>> /\ fwdOps = <<>>
    /\ prevRun = [outcome |-> "none", updates |-> 0]

\* The run that is over, as the next run finds it: how the main chain ended
\* and how many updates (retriers) the run had issued.
runSummary ==
    [outcome |-> mainPc, updates |-> Len(disOps) + Len(assocOps) + Len(fwdOps)]

\* The main chain up to Promise.all([updateNics(vms), updateFwdRules(...)]):
\* the resources are fetched and both procedures run their synchronous part,
\* which issues the first attempt of every disassociate and rule update.
StartRun ==
    /\ Quiescent
    /\ run < MaxRuns
    /\ LET n == updateNics(liveVms)
           f == updateFwdRules(liveRules, targetInstances)
       IN  /\ fetchedVms' = liveVms
           /\ fetchedRules' = liveRules
           /\ vms' = n.vms
           /\ nicPc' = n.pc
           /\ disassociateArr' = n.disassociateArr
           /\ associateArr' = n.associateArr
           /\ disOps' = NewOps(n.disassociateArr, NicRetryOptions)
           /\ assocOps' = <<>>
           /\ fwdPc' = f.pc
           /\ fwdRulesToUpdate' = f.fwdRulesToUpdate
           /\ fwdOps' = NewOps(f.fwdRulesToUpdate, FwdRetryOptions)
    /\ run' = run + 1
    /\ mainPc' = "updating"
    /\ prevRun' = runSummary
    /\ UNCHANGED <<nonFailoverVars, tgStats, virtualAddresses, deployedVms,
                   liveVms, liveRules, targetInstances>>

\* The main chain rejects before the update step (init, metadata or a
\* listing failed): .catch logs "Failover Failed", nothing is updated.
FetchFail ==
    /\ Quiescent
    /\ run < MaxRuns
    /\ run' = run + 1
    /\ mainPc' = "failed"
    /\ prevRun' = runSummary
    /\ fetchedVms' = <<>> /\ fetchedRules' = <<>> /\ vms' = <<>>
    /\ nicPc' = "none" /\ fwdPc' = "none"
    /\ disassociateArr' = <<>> /\ associateArr' = <<>>
    /\ disOps' = <<>> /\ assocOps' = <<>>
    /\ fwdRulesToUpdate' = <<>> /\ fwdOps' = <<>>
    /\ UNCHANGED <<nonFailoverVars, tgStats, virtualAddresses, deployedVms,
                   liveVms, liveRules, targetInstances>>

\* updateNic resolves for a disassociate entry: GCE has applied the NIC.
DisassociateOk ==
    \E i \in 1..Len(disOps) :
        /\ disOps[i].status = "inflight"
        /\ disOps' = [disOps EXCEPT ![i].status = "ok"]
        /\ liveVms' = applyNic(liveVms, disassociateArr[i])
        /\ UNCHANGED <<nonFailoverVars, prevRun, tgStats, virtualAddresses, deployedVms,
                       liveRules, targetInstances, run,
                       mainPc, fetchedVms, fetchedRules, vms, nicPc, disassociateArr,
                       associateArr, assocOps, fwdPc, fwdRulesToUpdate, fwdOps>>

\* updateNic rejects for a disassociate entry: tryUntil retries or gives up.
DisassociateFail ==
    \E i \in 1..Len(disOps) :
        /\ disOps[i].status = "inflight"
        /\ disOps' = [disOps EXCEPT ![i] = retryOrReject(@)]
        /\ UNCHANGED <<nonFailoverVars, prevRun, tgStats, virtualAddresses, deployedVms,
                       liveVms, liveRules, targetInstances,
                       run, mainPc, fetchedVms, fetchedRules, vms, nicPc,
                       disassociateArr, associateArr, assocOps, fwdPc,
                       fwdRulesToUpdate, fwdOps>>

\* Mutant of issueAssociates: the associate batch is issued next to the
\* disassociate batch instead of after it.
issueAssociatesAtOnce ==
    /\ nicPc = "disassociate"
    /\ nicPc' = "associate"
    /\ assocOps' = NewOps(associateArr, NicRetryOptions)

\* Promise.all(disassociatePromises).then: every disassociate retrier has
\* resolved, the associate retriers are created and issue their first attempt.
issueAssociates ==
    /\ nicPc = "disassociate"
    /\ AllOk(disOps)
    /\ nicPc' = "associate"
    /\ assocOps' = NewOps(associateArr, NicRetryOptions)

ThenAssociate ==
    /\ issueAssociates
    /\ UNCHANGED <<nonFailoverVars, prevRun, tgStats, virtualAddresses, deployedVms,
                   liveVms, liveRules, targetInstances,
                   run, mainPc, fetchedVms, fetchedRules, vms, disassociateArr,
                   associateArr, disOps, fwdPc, fwdRulesToUpdate, fwdOps>>

AssociateOk ==
    \E i \in 1..Len(assocOps) :
        /\ assocOps[i].status = "inflight"
        /\ assocOps' = [assocOps EXCEPT ![i].status = "ok"]
        /\ liveVms' = applyNic(liveVms, associateArr[i])
        /\ UNCHANGED <<nonFailoverVars, prevRun, tgStats, virtualAddresses, deployedVms,
                       liveRules, targetInstances, run,
                       mainPc, fetchedVms, fetchedRules, vms, nicPc, disassociateArr,
                       associateArr, disOps, fwdPc, fwdRulesToUpdate, fwdOps>>

AssociateFail ==
    \E i \in 1..Len(assocOps) :
        /\ assocOps[i].status = "inflight"
        /\ assocOps' = [assocOps EXCEPT ![i] = retryOrReject(@)]
        /\ UNCHANGED <<nonFailoverVars, prevRun, tgStats, virtualAddresses, deployedVms,
                       liveVms, liveRules, targetInstances,
                       run, mainPc, fetchedVms, fetchedRules, vms, nicPc,
                       disassociateArr, associateArr, disOps, fwdPc,
                       fwdRulesToUpdate, fwdOps>>

\* Promise.all(associatePromises).then: deferred.resolve().
NicResolve ==
    /\ nicPc = "associate"
    /\ AllOk(assocOps)
    /\ nicPc' = "resolved"
    /\ UNCHANGED <<nonFailoverVars, prevRun, tgStats, virtualAddresses, deployedVms,
                   liveVms, liveRules, targetInstances,
                   run, mainPc, fetchedVms, fetchedRules, vms, disassociateArr,
                   associateArr, disOps, assocOps, fwdPc, fwdRulesToUpdate, fwdOps>>

\* Mutant of NicCatch: the batch is reported once all of its members settled.
NicCatchAllSettled ==
    /\ \/ nicPc = "disassociate" /\ SomeFailed(disOps) /\ NoneInflight(disOps)
       \/ nicPc = "associate" /\ SomeFailed(assocOps) /\ NoneInflight(assocOps)
    /\ nicPc' = "rejected"
    /\ UNCHANGED <<nonFailoverVars, prevRun, tgStats, virtualAddresses, deployedVms,
                   liveVms, liveRules, targetInstances,
                   run, mainPc, fetchedVms, fetchedRules, vms, disassociateArr,
                   associateArr, disOps, assocOps, fwdPc, fwdRulesToUpdate, fwdOps>>

\* .catch of updateNics: a retrier of the current batch has rejected.
NicCatch ==
    /\ \/ nicPc = "disassociate" /\ SomeFailed(disOps)
       \/ nicPc = "associate" /\ SomeFailed(assocOps)
    /\ nicPc' = "rejected"
    /\ UNCHANGED <<nonFailoverVars, prevRun, tgStats, virtualAddresses, deployedVms,
                   liveVms, liveRules, targetInstances,
                   run, mainPc, fetchedVms, fetchedRules, vms, disassociateArr,
                   associateArr, disOps, assocOps, fwdPc, fwdRulesToUpdate, fwdOps>>

\* updateFwdRule resolves: GCE has set the rule's target.
FwdRuleOk ==
    \E i \in 1..Len(fwdOps) :
        /\ fwdOps[i].status = "inflight"
        /\ fwdOps' = [fwdOps EXCEPT ![i].status = "ok"]
        /\ liveRules' = applyRule(liveRules, fwdRulesToUpdate[i])
        /\ UNCHANGED <<nonFailoverVars, prevRun, tgStats, virtualAddresses, deployedVms,
                       liveVms, targetInstances, run,
                       mainPc, fetchedVms, fetchedRules, vms, nicPc, disassociateArr,
                       associateArr, disOps, assocOps, fwdPc, fwdRulesToUpdate>>

FwdRuleFail ==
    \E i \in 1..Len(fwdOps) :
        /\ fwdOps[i].status = "inflight"
        /\ fwdOps' = [fwdOps EXCEPT ![i] = retryOrReject(@)]
        /\ UNCHANGED <<nonFailoverVars, prevRun, tgStats, virtualAddresses, deployedVms,
                       liveVms, liveRules, targetInstances,
                       run, mainPc, fetchedVms, fetchedRules, vms, nicPc,
                       disassociateArr, associateArr, disOps, assocOps, fwdPc,
                       fwdRulesToUpdate>>

\* Promise.all(rulesPromises).then: deferred.resolve().
FwdResolve ==
    /\ fwdPc = "updating"
    /\ AllOk(fwdOps)
    /\ fwdPc' = "resolved"
    /\ UNCHANGED <<nonFailoverVars, prevRun, tgStats, virtualAddresses, deployedVms,
                   liveVms, liveRules, targetInstances,
                   run, mainPc, fetchedVms, fetchedRules, vms, nicPc, disassociateArr,
                   associateArr, disOps, assocOps, fwdRulesToUpdate, fwdOps>>

\* .catch of updateFwdRules.
FwdCatch ==
    /\ fwdPc = "updating"
    /\ SomeFailed(fwdOps)
    /\ fwdPc' = "rejected"
    /\ UNCHANGED <<nonFailoverVars, prevRun, tgStats, virtualAddresses, deployedVms,
                   liveVms, liveRules, targetInstances,
                   run, mainPc, fetchedVms, fetchedRules, vms, nicPc, disassociateArr,
                   associateArr, disOps, assocOps, fwdRulesToUpdate, fwdOps>>

\* Mutant of MainComplete: the run completes when one procedure resolved.
MainCompleteOnEither ==
    /\ mainPc = "updating"
    /\ nicPc \in {"skipped", "resolved"} \/ fwdPc \in {"skipped", "resolved"}
    /\ mainPc' = "complete"
    /\ UNCHANGED <<nonFailoverVars, prevRun, tgStats, virtualAddresses, deployedVms,
                   liveVms, liveRules, targetInstances,
                   run, fetchedVms, fetchedRules, vms, nicPc, disassociateArr,
                   associateArr, disOps, assocOps, fwdPc, fwdRulesToUpdate, fwdOps>>

\* The main chain's .then: both procedures resolved, 'Failover Complete'.
MainComplete ==
    /\ mainPc = "updating"
    /\ nicPc \in {"skipped", "resolved"}
    /\ fwdPc \in {"skipped", "resolved"}
    /\ mainPc' = "complete"
    /\ UNCHANGED <<nonFailoverVars, prevRun, tgStats, virtualAddresses, deployedVms,
                   liveVms, liveRules, targetInstances,
                   run, fetchedVms, fetchedRules, vms, nicPc, disassociateArr,
                   associateArr, disOps, assocOps, fwdPc, fwdRulesToUpdate, fwdOps>>

\* The main chain's .catch: one procedure rejected, 'Failover Failed'.
MainFailed ==
    /\ mainPc = "updating"
    /\ nicPc = "rejected" \/ fwdPc = "rejected"
    /\ mainPc' = "failed"
    /\ UNCHANGED <<nonFailoverVars, prevRun, tgStats, virtualAddresses, deployedVms,
                   liveVms, liveRules, targetInstances,
                   run, fetchedVms, fetchedRules, vms, nicPc, disassociateArr,
                   associateArr, disOps, assocOps, fwdPc, fwdRulesToUpdate, fwdOps>>

NextFailover ==
    \/ StartRun
    \/ FetchFail
    \/ DisassociateOk
    \/ DisassociateFail
    \/ ThenAssociate
    \/ AssociateOk
    \/ AssociateFail
    \/ NicResolve
    \/ NicCatch
    \/ FwdRuleOk
    \/ FwdRuleFail
    \/ FwdResolve
    \/ FwdCatch
    \/ MainComplete
    \/ MainFailed


(***************************************************************************)
(* gceCloudProvider.js: electPrimary.                                      *)
(***************************************************************************)

\* The JavaScript value undefined where an instance id is expected.
Undefined == "undefined"

\* Number of instances in a dictionary passed to electPrimary.
MaxInstances == 2

\* Number.MAX_SAFE_INTEGER, here the largest integer the checker holds; every
\* address of the model is below it.
MAX_SAFE_INTEGER == 2147483647

\* cloudUtil.ipToNumber: the dotted quad as one number, first octet highest.
ipToNumber(ip) == ip[1] * 16777216 + ip[2] * 65536 + ip[3] * 256 + ip[4]

\* Mutant of canInstanceBeElected: providerVisible is not looked at.
canInstanceBeElectedVersionOnly(instance) == instance.versionOk

\* Mutant of canInstanceBeElected: versionOk is not looked at.
canInstanceBeElectedVisibleOnly(instance) == instance.providerVisible

\* canInstanceBeElected(instance)
canInstanceBeElected(instance) == instance.versionOk /\ instance.providerVisible

\* Mutant of isLower: the comparison is turned around.
isLowerFlipped(currentIpToNumber, lowestIp) ==
    lowestIp = MAX_SAFE_INTEGER \/ currentIpToNumber > lowestIp

\* Mutant of isLower: every instance replaces the one seen before.
isLowerAlways(currentIpToNumber, lowestIp) == TRUE

\* if (currentIpToNumber < lowestGlobalIp): does the instance replace the
\* lowest one seen so far?
isLower(currentIpToNumber, lowestIp) == currentIpToNumber < lowestIp

\* The forEach over Object.keys(instances): acc holds lowestGlobalIp,
\* lowestExternalIp, primaryId and externalPrimaryId.
RECURSIVE electLoop(_, _, _)
electLoop(insts, k, acc) ==
    IF k > Len(insts) THEN acc
    ELSE LET instanceId == insts[k][1]
             instance == insts[k][2]
             currentIpToNumber == ipToNumber(instance.privateIp)
             acc1 == IF isLower(currentIpToNumber, acc.lowestGlobalIp)
                     THEN [acc EXCEPT !.lowestGlobalIp = currentIpToNumber,
                                      !.primaryId = instanceId]
                     ELSE acc
             acc2 == IF instance.external
                        /\ isLower(currentIpToNumber, acc1.lowestExternalIp)
                     THEN [acc1 EXCEPT !.lowestExternalIp = currentIpToNumber,
                                       !.externalPrimaryId = instanceId]
                     ELSE acc1
         IN  IF canInstanceBeElected(instance)
             THEN electLoop(insts, k + 1, acc2)
             ELSE electLoop(insts, k + 1, acc)

\* Mutant of electPrimary: the external winner does not override.
electPrimaryNoPreference(insts) ==
    electLoop(insts, 1,
        [lowestGlobalIp |-> MAX_SAFE_INTEGER,
         lowestExternalIp |-> MAX_SAFE_INTEGER,
         primaryId |-> Undefined,
         externalPrimaryId |-> Undefined]).primaryId

\* electPrimary(instances): the id the returned promise resolves with.
electPrimary(insts) ==
    LET acc == electLoop(insts, 1,
                   [lowestGlobalIp |-> MAX_SAFE_INTEGER,
                    lowestExternalIp |-> MAX_SAFE_INTEGER,
                    primaryId |-> Undefined,
                    externalPrimaryId |-> Undefined])
    IN  \* prefer external instances (for example, BYOL instances)
        IF acc.externalPrimaryId # Undefined THEN acc.externalPrimaryId
        ELSE acc.primaryId

ElectIds == {"vm1", "vm2", "vm3"}

\* Private addresses: numerically 9.0.0.200 < 10.0.0.2 < 10.0.0.10, while as
\* strings "10.0.0.10" < "10.0.0.2" < "9.0.0.200".
ElectIps == { <<9, 0, 0, 200>>, <<10, 0, 0, 2>>, <<10, 0, 0, 10>> }

ElectInstances ==
    [privateIp : ElectIps, versionOk : BOOLEAN, providerVisible : BOOLEAN,
     external : BOOLEAN]

\* The dictionaries of at most MaxInstances instances: distinct ids, in any
\* key order.
ElectMaps ==
    UNION { { m \in [1..n -> ElectIds \X ElectInstances] :
                \A i, j \in 1..n : i # j => m[i][1] # m[j][1] } :
            n \in 0..MaxInstances }

InitElectVars ==
    /\ instances \in ElectMaps
    /\ electPc = "idle"
    /\ primaryId = Undefined

ElectOff ==
    /\ instances = <<>>
    /\ electPc = "off"
    /\ primaryId = Undefined

FailoverOff ==
    /\ tgStats = <<>> /\ virtualAddresses = <<>>
    /\ liveVms = <<>> /\ liveRules = <<>> /\ targetInstances = <<>>
    /\ deployedVms = <<>>
    /\ run = MaxRuns
    /\ mainPc = "idle"
    /\ fetchedVms = <<>> /\ fetchedRules = <<>> /\ vms = <<>>
    /\ nicPc = "none"
    /\ disassociateArr = <<>> /\ associateArr = <<>>
    /\ disOps = <<>> /\ assocOps = <<>>
    /\ fwdPc = "none"
    /\ fwdRulesToUpdate = <<>> /\ fwdOps = <<>>
    /\ prevRun = [outcome |-> "none", updates |-> 0]

\* provider.electPrimary(instances) is called and its promise resolves.
ElectPrimary ==
    /\ electPc = "idle"
    /\ primaryId' = electPrimary(instances)
    /\ electPc' = "done"
    /\ UNCHANGED <<nonElectVars, instances>>


NextElect ==
    \/ ElectPrimary




(***************************************************************************)
(* gceCloudProvider.js: getInstances.                                      *)
(***************************************************************************)

\* A JavaScript object used as a dictionary: <<key, value>> pairs in
\* insertion order.
Keys(m) == [i \in 1..Len(m) |-> m[i][1]]
Has(m, key) == \E i \in 1..Len(m) : m[i][1] = key
Get(m, key) == m[CHOOSE i \in 1..Len(m) : m[i][1] = key][2]
\* m[key] = value: an existing key keeps its place.
Put(m, key, value) ==
    IF Has(m, key)
    THEN [i \in 1..Len(m) |-> IF m[i][1] = key THEN <<key, value>> ELSE m[i]]
    ELSE Append(m, <<key, value>>)

\* Array.prototype.indexOf(x) !== -1
Contains(arr, x) == \E i \in 1..Len(arr) : arr[i] = x

VALID_STATUSES == {"PROVISIONING", "STAGING", "RUNNING"}

\* cloudProvider.isInstanceExpired(instance): the record's lastUpdate is too
\* long ago.  A record without lastUpdate is not expired.
isInstanceExpired(instance) ==
    "lastUpdate" \in DOMAIN instance /\ instance.lastUpdate = "old"

\* new AutoscaleInstance().setPrivateIp(ip.private).setPublicIp(ip.public)
\*     .setMgmtIp(ip.private).setProviderVisible(), for a VM info {id, ip}.
newInstance(vmInfo) ==
    LET fields == [isPrimary |-> FALSE, versionOk |-> TRUE,
                   privateIp |-> vmInfo.ip.private, mgmtIp |-> vmInfo.ip.private,
                   providerVisible |-> TRUE, external |-> FALSE]
    IN  IF "public" \in DOMAIN vmInfo.ip
        THEN [f \in (DOMAIN fields) \cup {"publicIp"} |->
                IF f = "publicIp" THEN vmInfo.ip.public ELSE fields[f]]
        ELSE fields

\* ... .setExternal()
newExternalInstance(vmInfo) == [newInstance(vmInfo) EXCEPT !.external = TRUE]

\* getVmInfo(vm) once vm.getMetadata() has resolved: {id, ip} when the
\* metadata has a first network interface, undefined (<<>> here) when not.
getVmInfo(vm) ==
    IF Len(vm.networkInterfaces) > 0
    THEN LET nic == vm.networkInterfaces[1]
         IN  << [id |-> vm.name,
                 ip |-> IF "natIP" \in DOMAIN nic
                        THEN [private |-> nic.networkIP, public |-> nic.natIP]
                        ELSE [private |-> nic.networkIP]] >>
    ELSE <<>>

\* Mutant of validIds: only RUNNING counts.
validIdsRunningOnly(groupVms) ==
    Keys(SelectSeq([i \in 1..Len(groupVms) |-> <<groupVms[i].name, groupVms[i]>>],
                   LAMBDA p : p[2].status = "RUNNING"))

\* The group VMs whose status is valid: gceInstanceIds.
validIds(groupVms) ==
    Keys(SelectSeq([i \in 1..Len(groupVms) |-> <<groupVms[i].name, groupVms[i]>>],
                   LAMBDA p : p[2].status \in VALID_STATUSES))

\* gceVms[name]
gceVm(groupVms, name) ==
    groupVms[CHOOSE i \in 1..Len(groupVms) : groupVms[i].name = name]

\* externalVms.forEach: instances[vm.id] = new AutoscaleInstance()...
RECURSIVE addExternal(_, _)
addExternal(insts, extVms) ==
    IF Len(extVms) = 0 THEN insts
    ELSE addExternal(Put(insts, Head(extVms).id, newExternalInstance(Head(extVms))),
                     Tail(extVms))

\* The record is kept with its stored providerVisible flag.
keepAsStored(instance, visible) == instance

\* instances[instanceId] = instance; instances[instanceId].providerVisible = visible
keep(instance, visible) == [instance EXCEPT !.providerVisible = visible]

\* Every record the group does not know is deleted, primary or not.
dbVerdictNoPrimary(instanceId, instance, gceIds) ==
    IF Contains(gceIds, instanceId) THEN "visible" ELSE "delete"

\* What the loop over the persisted records does with one record:
\* "visible" (id known to the group), "primary" (kept although not visible)
\* or "delete".
dbVerdict(instanceId, instance, gceIds) ==
    IF Contains(gceIds, instanceId) THEN "visible"
    ELSE IF instance.isPrimary /\ ~isInstanceExpired(instance) THEN "primary"
    ELSE "delete"

\* instanceIdsInDb.forEach: acc holds instances, idsToDelete and the
\* instances pushed to this.instancesToRevoke.
RECURSIVE reconcile(_, _, _, _)
reconcile(fromDb, k, gceIds, acc) ==
    IF k > Len(fromDb) THEN acc
    ELSE LET instanceId == fromDb[k][1]
             instance == fromDb[k][2]
             verdict == dbVerdict(instanceId, instance, gceIds)
         IN  reconcile(fromDb, k + 1, gceIds,
                CASE verdict = "visible" ->
                        [acc EXCEPT !.instances = Put(@, instanceId, keep(instance, TRUE))]
                  [] verdict = "primary" ->
                        [acc EXCEPT !.instances = Put(@, instanceId, keep(instance, FALSE))]
                  [] OTHER ->
                        [acc EXCEPT !.idsToDelete = Append(@, instanceId),
                                    !.instancesToRevoke = Append(@, instance)])

\* The ids GCE reports that the store does not hold: a getVmInfo is issued
\* for each.
missingIds(gceIds, fromDb) ==
    SelectSeq(gceIds, LAMBDA id : ~Contains(Keys(fromDb), id))

\* missingInstances.forEach: a synthesized record for each VM info that is
\* not undefined.
RECURSIVE addMissing(_, _)
addMissing(insts, infos) ==
    IF Len(infos) = 0 THEN insts
    ELSE addMissing(
            IF Len(Head(infos)) > 0
            THEN Put(insts, Head(infos)[1].id, newInstance(Head(infos)[1]))
            ELSE insts,
            Tail(infos))

\* deleteInstances(idsToDelete): per id a delete of instances/<id> and one
\* of public_keys/<id>, all issued at once.
deleteInstances(ids) ==
    Concat([i \in 1..Len(ids) |->
        << [folder |-> "instances/", id |-> ids[i], status |-> "inflight"],
           [folder |-> "public_keys/", id |-> ids[i], status |-> "inflight"] >>])

\* ---- the inputs of a reconciliation pass ----

GroupNic == [networkIP |-> <<10, 0, 0, 2>>, natIP |-> <<35, 1, 1, 9>>]
GroupVm(name, status, nics) == [name |-> name, status |-> status, networkInterfaces |-> nics]

\* instanceGroup.getVMs(): vm1 and vm2 can be in the group, vm3 never is.
GroupChoices ==
    { a \o b :
        a \in { <<>>,
                <<GroupVm("vm1", "RUNNING", <<GroupNic>>)>>,
                <<GroupVm("vm1", "PROVISIONING", <<>>)>>,
                <<GroupVm("vm1", "STOPPING", <<GroupNic>>)>> },
        b \in { <<>>,
                <<GroupVm("vm2", "STAGING", <<[networkIP |-> <<10, 0, 0, 3>>]>>)>> } }

ExtVm(id, private) == [id |-> id, ip |-> [private |-> private]]

\* <<options.externalTag given, what getVmsByTag resolves with>>
ExternalChoices ==
    { <<FALSE, <<>>>>,
      <<TRUE, <<>>>>,
      <<TRUE, <<ExtVm("vm3", <<10, 0, 0, 4>>)>>>>,
      <<TRUE, <<ExtVm("vm2", <<10, 0, 0, 3>>), ExtVm("vm3", <<10, 0, 0, 4>>)>>>> }

\* A record as putInstance stored it.
DbRecord(isPrimary, lastUpdate, visible, ip) ==
    [isPrimary |-> isPrimary, lastUpdate |-> lastUpdate, versionOk |-> TRUE,
     privateIp |-> ip, mgmtIp |-> ip, providerVisible |-> visible,
     external |-> FALSE]

DbChoices ==
    { a \o b \o c :
        a \in { <<>>,
                << <<"vm1", DbRecord(FALSE, "recent", FALSE, <<10, 0, 0, 2>>)>> >>,
                << <<"vm1", DbRecord(TRUE, "recent", TRUE, <<10, 0, 0, 2>>)>> >> },
        b \in { <<>>,
                << <<"vm2", DbRecord(FALSE, "recent", FALSE, <<10, 0, 0, 3>>)>> >>,
                << <<"vm2", DbRecord(TRUE, "old", TRUE, <<10, 0, 0, 3>>)>> >> },
        c \in { <<>>,
                << <<"vm3", DbRecord(FALSE, "old", TRUE, <<10, 0, 0, 4>>)>> >>,
                << <<"vm3", DbRecord(TRUE, "recent", TRUE, <<10, 0, 0, 4>>)>> >>,
                << <<"vm3", DbRecord(TRUE, "old", FALSE, <<10, 0, 0, 4>>)>> >> } }

\* The ids with a stored public key: every stored instance, or all but vm3.
KeyChoices(files) ==
    { Range(Keys(files)), Range(Keys(files)) \ {"vm3"} }

InitInstVars ==
    /\ instanceGroupVms \in GroupChoices
    /\ \E e \in ExternalChoices : externalTag = e[1] /\ externalVms = e[2]
    /\ instanceFiles \in DbChoices
    /\ publicKeyFiles \in KeyChoices(instanceFiles)
    /\ giPc = "idle"
    /\ gceInstanceIds = <<>>
    /\ instancesFromDb = <<>>
    /\ instancesOut = <<>>
    /\ idsToDelete = <<>>
    /\ instancesToRevoke = <<>>
    /\ deleteOps = <<>>

\* getInstances is not called.
InstQuiet ==
    /\ instanceGroupVms = <<>>
    /\ externalTag = FALSE /\ externalVms = <<>>
    /\ publicKeyFiles = {}
    /\ giPc = "off"
    /\ gceInstanceIds = <<>>
    /\ instancesFromDb = <<>>
    /\ instancesOut = <<>>
    /\ idsToDelete = <<>>
    /\ instancesToRevoke = <<>>
    /\ deleteOps = <<>>

InstOff == InstQuiet /\ instanceFiles = <<>>

\* getInstances(options) is called: getMetadata('instance/zone') is issued.
GetInstances ==
    /\ giPc = "idle"
    /\ giPc' = "zone"
    /\ UNCHANGED <<nonInstVars, instanceGroupVms, externalTag, externalVms,
                   instanceFiles, publicKeyFiles, gceInstanceIds, instancesFromDb,
                   instancesOut, idsToDelete, instancesToRevoke, deleteOps>>

\* The zone metadata arrives: instanceGroup.getVMs() is issued.
ZoneOk ==
    /\ giPc = "zone"
    /\ giPc' = "groupVms"
    /\ UNCHANGED <<nonInstVars, instanceGroupVms, externalTag, externalVms,
                   instanceFiles, publicKeyFiles, gceInstanceIds, instancesFromDb,
                   instancesOut, idsToDelete, instancesToRevoke, deleteOps>>

\* The group's VMs arrive: the ids with a valid status are kept; with an
\* external tag getVmsByTag is issued, without one the next step runs with
\* [] and issues getInstancesFromDb.
GroupVmsOk ==
    /\ giPc = "groupVms"
    /\ gceInstanceIds' = validIds(instanceGroupVms)
    /\ giPc' = IF externalTag THEN "externalVms" ELSE "db"
    /\ UNCHANGED <<nonInstVars, instanceGroupVms, externalTag, externalVms,
                   instanceFiles, publicKeyFiles, instancesFromDb,
                   instancesOut, idsToDelete, instancesToRevoke, deleteOps>>

\* The tagged VMs arrive: each becomes an external, provider-visible
\* instance; getInstancesFromDb is issued.
ExternalVmsOk ==
    /\ giPc = "externalVms"
    /\ instancesOut' = addExternal(instancesOut, externalVms)
    /\ giPc' = "db"
    /\ UNCHANGED <<nonInstVars, instanceGroupVms, externalTag, externalVms,
                   instanceFiles, publicKeyFiles, gceInstanceIds, instancesFromDb,
                   idsToDelete, instancesToRevoke, deleteOps>>

\* A variant of the step that issues the deletes as soon as the persisted
\* records are reconciled, before the missing VMs' metadata is fetched.
DbOkDeletingAtOnce ==
    /\ giPc = "db"
    /\ instancesFromDb' = instanceFiles
    /\ LET r == reconcile(instanceFiles, 1, gceInstanceIds,
                    [instances |-> instancesOut, idsToDelete |-> idsToDelete,
                     instancesToRevoke |-> instancesToRevoke])
       IN  /\ instancesOut' = r.instances
           /\ idsToDelete' = r.idsToDelete
           /\ instancesToRevoke' = r.instancesToRevoke
           /\ deleteOps' = deleteInstances(r.idsToDelete)
    /\ giPc' = "missing"
    /\ UNCHANGED <<nonInstVars, instanceGroupVms, externalTag, externalVms,
                   instanceFiles, publicKeyFiles, gceInstanceIds>>

\* The persisted records arrive: they are reconciled with the group's ids
\* and a getVmInfo is issued for every group VM the store does not hold.
DbOk ==
    /\ giPc = "db"
    /\ instancesFromDb' = instanceFiles
    /\ LET r == reconcile(instanceFiles, 1, gceInstanceIds,
                    [instances |-> instancesOut, idsToDelete |-> idsToDelete,
                     instancesToRevoke |-> instancesToRevoke])
       IN  /\ instancesOut' = r.instances
           /\ idsToDelete' = r.idsToDelete
           /\ instancesToRevoke' = r.instancesToRevoke
    /\ giPc' = "missing"
    /\ UNCHANGED <<nonInstVars, instanceGroupVms, externalTag, externalVms,
                   instanceFiles, publicKeyFiles, gceInstanceIds, deleteOps>>

\* q.all(missingPromises) resolves: the synthesized records are added and
\* deleteInstances issues its deletes.
MissingOk ==
    /\ giPc = "missing"
    /\ LET ids == missingIds(gceInstanceIds, instancesFromDb)
           infos == [i \in 1..Len(ids) |-> getVmInfo(gceVm(instanceGroupVms, ids[i]))]
       IN  instancesOut' = addMissing(instancesOut, infos)
    /\ deleteOps' = deleteInstances(idsToDelete)
    /\ giPc' = "deleting"
    /\ UNCHANGED <<nonInstVars, instanceGroupVms, externalTag, externalVms,
                   instanceFiles, publicKeyFiles, gceInstanceIds, instancesFromDb,
                   idsToDelete, instancesToRevoke>>

\* A remote call of the chain rejects (the metadata, the group listing, the
\* tag query, the store listing or download, or a vm.getMetadata of a missing
\* VM): the chain goes to .catch and getInstances rejects.
QueryFail ==
    /\ \/ giPc \in {"zone", "groupVms", "externalVms", "db"}
       \/ giPc = "missing" /\ Len(missingIds(gceInstanceIds, instancesFromDb)) > 0
    /\ giPc' = "rejected"
    /\ UNCHANGED <<nonInstVars, instanceGroupVms, externalTag, externalVms,
                   instanceFiles, publicKeyFiles, gceInstanceIds, instancesFromDb,
                   instancesOut, idsToDelete, instancesToRevoke, deleteOps>>

FileExists(op) ==
    IF op.folder = "instances/" THEN Has(instanceFiles, op.id)
    ELSE op.id \in publicKeyFiles

\* file.delete() resolves: the object is gone from the bucket.
DeleteOk ==
    \E i \in 1..Len(deleteOps) :
        /\ deleteOps[i].status = "inflight"
        /\ FileExists(deleteOps[i])
        /\ deleteOps' = [deleteOps EXCEPT ![i].status = "ok"]
        /\ IF deleteOps[i].folder = "instances/"
           THEN /\ instanceFiles' = SelectSeq(instanceFiles,
                                        LAMBDA f : f[1] # deleteOps[i].id)
                /\ UNCHANGED publicKeyFiles
           ELSE /\ publicKeyFiles' = publicKeyFiles \ {deleteOps[i].id}
                /\ UNCHANGED instanceFiles
        /\ UNCHANGED <<nonInstVars, instanceGroupVms, externalTag, externalVms,
                       giPc, gceInstanceIds, instancesFromDb, instancesOut,
                       idsToDelete, instancesToRevoke>>

\* file.delete() rejects: the object does not exist, or the call failed.
DeleteFail ==
    \E i \in 1..Len(deleteOps) :
        /\ deleteOps[i].status = "inflight"
        /\ deleteOps' = [deleteOps EXCEPT ![i].status = "failed"]
        /\ UNCHANGED <<nonInstVars, instanceGroupVms, externalTag, externalVms,
                       instanceFiles, publicKeyFiles, giPc, gceInstanceIds,
                       instancesFromDb, instancesOut, idsToDelete, instancesToRevoke>>

\* q.all of the deletes resolves: getInstances resolves with instances.
GetInstancesResolve ==
    /\ giPc = "deleting"
    /\ AllOk(deleteOps)
    /\ giPc' = "resolved"
    /\ UNCHANGED <<nonInstVars, instanceGroupVms, externalTag, externalVms,
                   instanceFiles, publicKeyFiles, gceInstanceIds, instancesFromDb,
                   instancesOut, idsToDelete, instancesToRevoke, deleteOps>>

\* q.all of the deletes rejects with the first failure: getInstances rejects.
GetInstancesReject ==
    /\ giPc = "deleting"
    /\ SomeFailed(deleteOps)
    /\ giPc' = "rejected"
    /\ UNCHANGED <<nonInstVars, instanceGroupVms, externalTag, externalVms,
                   instanceFiles, publicKeyFiles, gceInstanceIds, instancesFromDb,
                   instancesOut, idsToDelete, instancesToRevoke, deleteOps>>

NextInst ==
    \/ GetInstances
    \/ ZoneOk
    \/ GroupVmsOk
    \/ ExternalVmsOk
    \/ DbOk
    \/ MissingOk
    \/ QueryFail
    \/ DeleteOk
    \/ DeleteFail
    \/ GetInstancesResolve
    \/ GetInstancesReject

(***************************************************************************)
(* gceCloudProvider.js: primaryElected.                                    *)
(***************************************************************************)

\* this.instanceId
thisInstanceId == "vm1"

\* Every flagged primary is demoted, the elected one too.
shouldDemoteAnyPrimary(dbInstanceId, instance, instanceId) == instance.isPrimary

\* dbInstanceId !== instanceId && instance.isPrimary
shouldDemote(dbInstanceId, instance, instanceId) ==
    dbInstanceId # instanceId /\ instance.isPrimary

\* instanceIdsInDb.forEach: the putInstance calls issued, in order; each
\* carries the record with isPrimary cleared.
demoteOthers(fromDb, instanceId) ==
    LET stale == SelectSeq(fromDb, LAMBDA f : shouldDemote(f[1], f[2], instanceId))
    IN  [i \in 1..Len(stale) |->
            [id |-> stale[i][1],
             instance |-> [stale[i][2] EXCEPT !.isPrimary = FALSE],
             status |-> "inflight"]]

instanceGroup == "ig1"
JOIN_PREFIX == "JOIN_"
SYNC_COMPLETE_PREFIX == "SYNC_COMPLETE_"

\* Names are sequences of tokens, so that endsWith is a real suffix test.
getJoinTopicName == <<JOIN_PREFIX, instanceGroup>>
getSyncTopicName == <<SYNC_COMPLETE_PREFIX, instanceGroup>>
getJoinSubscriptionName == <<JOIN_PREFIX, thisInstanceId>>
getSyncSubscriptionName == <<SYNC_COMPLETE_PREFIX, thisInstanceId>>

\* String.prototype.endsWith
EndsWith(str, suffix) ==
    /\ Len(suffix) <= Len(str)
    /\ SubSeq(str, Len(str) - Len(suffix) + 1, Len(str)) = suffix

\* The full resource names the service lists.
TopicPath(name) == <<"projects/p/topics/">> \o name
SubscriptionPath(name) == <<"projects/p/subscriptions/">> \o name

\* GET topics: the full names of the project's topics.
listTopics(existing) == {TopicPath(name) : name \in existing}

\* GET topics/<topic>/subscriptions: the full names of the topic's
\* subscriptions.
listSubscriptions(existing, topic) ==
    {SubscriptionPath(sub.name) : sub \in {x \in existing : x.topic = topic}}

\* setupTopicsAndSubscriptions: the topics to create, given the listing.
topicsToCreate(listing) ==
    LET hasSyncTopic == \E name \in listing : EndsWith(name, getSyncTopicName)
        hasJoinTopic == \E name \in listing : EndsWith(name, getJoinTopicName)
    IN  (IF ~hasSyncTopic
         THEN <<[name |-> getSyncTopicName, status |-> "inflight"]>> ELSE <<>>)
        \o (IF ~hasJoinTopic
            THEN <<[name |-> getJoinTopicName, status |-> "inflight"]>> ELSE <<>>)

\* The topic whose subscriptions setupTopicsAndSubscriptions lists.
topicToList(isPrimary) == IF isPrimary THEN getJoinTopicName ELSE getSyncTopicName

\* A variant that creates this instance's subscription whatever the listing
\* holds.
subscriptionToCreateUnlisted(isPrimary, listing) ==
    IF isPrimary
    THEN <<[topic |-> getJoinTopicName, name |-> getJoinSubscriptionName,
            status |-> "inflight"]>>
    ELSE <<[topic |-> getSyncTopicName, name |-> getSyncSubscriptionName,
            status |-> "inflight"]>>

\* setupTopicsAndSubscriptions: the createSubscription call to issue, if
\* any, given the listing of the topic's subscriptions.
subscriptionToCreate(isPrimary, listing) ==
    LET hasJoinSubscription ==
            \E name \in listing : EndsWith(name, getJoinSubscriptionName)
        hasSyncSubscritpion ==
            \E name \in listing : EndsWith(name, getSyncSubscriptionName)
    IN  IF isPrimary /\ ~hasJoinSubscription
        THEN <<[topic |-> getJoinTopicName, name |-> getJoinSubscriptionName,
                status |-> "inflight"]>>
        ELSE IF ~isPrimary /\ ~hasSyncSubscritpion
        THEN <<[topic |-> getSyncTopicName, name |-> getSyncSubscriptionName,
                status |-> "inflight"]>>
        ELSE <<>>

ElectedChoices == {"vm1", "vm2", "vm4"}
TopicChoices == {{}, {getSyncTopicName}, {getSyncTopicName, getJoinTopicName}}
Subscription(topic, prefix, id) == [topic |-> topic, name |-> <<prefix, id>>]
SubscriptionChoices ==
    {{},
     {Subscription(getSyncTopicName, SYNC_COMPLETE_PREFIX, "vm1")},
     {Subscription(getJoinTopicName, JOIN_PREFIX, "vm1")},
     {Subscription(getJoinTopicName, JOIN_PREFIX, "vm2"),
      Subscription(getSyncTopicName, SYNC_COMPLETE_PREFIX, "vm2")}}

InitPrimaryVars ==
    /\ electedId \in ElectedChoices
    /\ topics \in TopicChoices
    /\ subscriptions \in {subs \in SubscriptionChoices :
                              \A sub \in subs : sub.topic \in topics}
    /\ instanceFiles \in DbChoices
    /\ pePc = "idle"
    /\ createTopicOps = <<>>
    /\ createSubscriptionOps = <<>>
    /\ putOps = <<>>

PrimaryOff ==
    /\ electedId = Undefined
    /\ topics = {}
    /\ subscriptions = {}
    /\ pePc = "off"
    /\ createTopicOps = <<>>
    /\ createSubscriptionOps = <<>>
    /\ putOps = <<>>

\* primaryElected(instanceId) is called: setupTopicsAndSubscriptions issues
\* pubSub.getTopics().
PrimaryElected ==
    /\ pePc = "idle"
    /\ pePc' = "getTopics"
    /\ UNCHANGED <<nonPrimaryVars, instanceFiles, instancesFromDb, electedId, topics,
                   subscriptions, createTopicOps, createSubscriptionOps, putOps>>

\* The topics arrive: a createTopic is issued for each missing one.
GetTopicsOk ==
    /\ pePc = "getTopics"
    /\ createTopicOps' = topicsToCreate(listTopics(topics))
    /\ pePc' = "createTopics"
    /\ UNCHANGED <<nonPrimaryVars, instanceFiles, instancesFromDb, electedId, topics,
                   subscriptions, createSubscriptionOps, putOps>>

\* PubSub.createTopic resolves after the topic was created.
CreateTopicOk ==
    \E i \in 1..Len(createTopicOps) :
        /\ createTopicOps[i].status = "inflight"
        /\ createTopicOps' = [createTopicOps EXCEPT ![i].status = "ok"]
        /\ topics' = topics \cup {createTopicOps[i].name}
        /\ UNCHANGED <<nonPrimaryVars, instanceFiles, instancesFromDb, electedId,
                       subscriptions, pePc, createSubscriptionOps, putOps>>

\* The initialization or the request of PubSub.createTopic fails: its
\* .catch logs the error and the call resolves without a topic.
CreateTopicFail ==
    \E i \in 1..Len(createTopicOps) :
        /\ createTopicOps[i].status = "inflight"
        /\ createTopicOps' = [createTopicOps EXCEPT ![i].status = "failed"]
        /\ UNCHANGED <<nonPrimaryVars, instanceFiles, instancesFromDb, electedId, topics,
                       subscriptions, pePc, createSubscriptionOps, putOps>>

\* q.all of the createTopic calls resolves, each call having resolved
\* whether or not its topic was created: getSubscriptions is issued.
TopicsReady ==
    /\ pePc = "createTopics"
    /\ NoneInflight(createTopicOps)
    /\ pePc' = "getSubscriptions"
    /\ UNCHANGED <<nonPrimaryVars, instanceFiles, instancesFromDb, electedId, topics,
                   subscriptions, createTopicOps, createSubscriptionOps, putOps>>

\* The subscriptions of the listed topic arrive (the topic exists): the
\* missing one is created, or setup is done and getInstancesFromDb is issued.
GetSubscriptionsOk ==
    /\ pePc = "getSubscriptions"
    /\ topicToList(thisInstanceId = electedId) \in topics
    /\ LET isPrimary == thisInstanceId = electedId
           create == subscriptionToCreate(isPrimary,
                         listSubscriptions(subscriptions, topicToList(isPrimary)))
       IN  /\ createSubscriptionOps' = create
           /\ pePc' = IF Len(create) > 0 THEN "createSubscription"
                      ELSE "getInstancesFromDb"
    /\ UNCHANGED <<nonPrimaryVars, instanceFiles, instancesFromDb, electedId, topics,
                   subscriptions, createTopicOps, putOps>>

\* PubSub.createSubscription resolves after the subscription was created:
\* setup is done, getInstancesFromDb is issued.
CreateSubscriptionOk ==
    /\ pePc = "createSubscription"
    /\ createSubscriptionOps[1].status = "inflight"
    /\ createSubscriptionOps' = [createSubscriptionOps EXCEPT ![1].status = "ok"]
    /\ subscriptions' = subscriptions
            \cup {[topic |-> createSubscriptionOps[1].topic,
                   name |-> createSubscriptionOps[1].name]}
    /\ pePc' = "getInstancesFromDb"
    /\ UNCHANGED <<nonPrimaryVars, instanceFiles, instancesFromDb, electedId, topics,
                   createTopicOps, putOps>>

\* The initialization or the request of PubSub.createSubscription fails: its
\* .catch logs the error and the call resolves, so setup is done all the same.
CreateSubscriptionFail ==
    /\ pePc = "createSubscription"
    /\ createSubscriptionOps[1].status = "inflight"
    /\ createSubscriptionOps' = [createSubscriptionOps EXCEPT ![1].status = "failed"]
    /\ pePc' = "getInstancesFromDb"
    /\ UNCHANGED <<nonPrimaryVars, instanceFiles, instancesFromDb, electedId, topics,
                   subscriptions, createTopicOps, putOps>>

\* PubSub.getTopics or PubSub.getSubscriptions fails: its .catch logs the
\* error and the call resolves with undefined, so reading data[0] throws in
\* setupTopicsAndSubscriptions; its .catch rejects and primaryElected's
\* .catch rejects with that error.
SetupFail ==
    /\ pePc \in {"getTopics", "getSubscriptions"}
    /\ pePc' = "rejected"
    /\ UNCHANGED <<nonPrimaryVars, instanceFiles, instancesFromDb, electedId, topics,
                   subscriptions, createTopicOps, createSubscriptionOps, putOps>>

\* A variant that returns q.all(promises): primaryElected stays pending
\* while the writes are.
DemoteOthersAwaited ==
    /\ pePc = "getInstancesFromDb"
    /\ instancesFromDb' = instanceFiles
    /\ putOps' = demoteOthers(instanceFiles, electedId)
    /\ pePc' = IF Len(demoteOthers(instanceFiles, electedId)) > 0
               THEN "putInstances" ELSE "resolved"
    /\ UNCHANGED <<nonPrimaryVars, instanceFiles, electedId, topics, subscriptions,
                   createTopicOps, createSubscriptionOps>>

\* The persisted records arrive: a putInstance is issued for every other
\* record flagged primary, and primaryElected resolves without waiting.
DemoteOthers ==
    /\ pePc = "getInstancesFromDb"
    /\ instancesFromDb' = instanceFiles
    /\ putOps' = demoteOthers(instanceFiles, electedId)
    /\ pePc' = "resolved"
    /\ UNCHANGED <<nonPrimaryVars, instanceFiles, electedId, topics, subscriptions,
                   createTopicOps, createSubscriptionOps>>

\* getInstancesFromDb rejects: primaryElected rejects.
GetFromDbFail ==
    /\ pePc = "getInstancesFromDb"
    /\ pePc' = "rejected"
    /\ UNCHANGED <<nonPrimaryVars, instanceFiles, instancesFromDb, electedId, topics,
                   subscriptions, createTopicOps, createSubscriptionOps, putOps>>

\* putInstance resolves: instances/<id> holds the demoted record.
PutOk ==
    \E i \in 1..Len(putOps) :
        /\ putOps[i].status = "inflight"
        /\ putOps' = [putOps EXCEPT ![i].status = "ok"]
        /\ instanceFiles' = Put(instanceFiles, putOps[i].id, putOps[i].instance)
        /\ UNCHANGED <<nonPrimaryVars, instancesFromDb, electedId, topics,
                       subscriptions, pePc, createTopicOps, createSubscriptionOps>>

\* putInstance rejects: nobody is waiting for it.
PutFail ==
    \E i \in 1..Len(putOps) :
        /\ putOps[i].status = "inflight"
        /\ putOps' = [putOps EXCEPT ![i].status = "failed"]
        /\ UNCHANGED <<nonPrimaryVars, instanceFiles, instancesFromDb, electedId, topics,
                       subscriptions, pePc, createTopicOps, createSubscriptionOps>>

NextPrimary ==
    \/ PrimaryElected
    \/ GetTopicsOk
    \/ CreateTopicOk
    \/ CreateTopicFail
    \/ TopicsReady
    \/ GetSubscriptionsOk
    \/ CreateSubscriptionOk
    \/ CreateSubscriptionFail
    \/ SetupFail
    \/ DemoteOthers
    \/ GetFromDbFail
    \/ PutOk
    \/ PutFail

\* Another instance of the group stores its own record while primaryElected
\* runs here: putInstance(id, instance) with a fresh lastUpdate.  The bucket
\* has no lock and the write no precondition, so it can land at any time.
PeerPutInstance ==
    /\ pePc \notin {"off", "idle"}
    /\ \E id \in Range(Keys(instanceFiles)) \ {thisInstanceId} :
          /\ Get(instanceFiles, id).lastUpdate = "old"
          /\ instanceFiles' = Put(instanceFiles, id,
                                  [Get(instanceFiles, id) EXCEPT !.lastUpdate = "recent"])
    /\ UNCHANGED <<nonPrimaryVars, instancesFromDb, electedId, topics, subscriptions,
                   pePc, createTopicOps, createSubscriptionOps, putOps>>

\* primaryElected on this instance next to the writes of the other instances.
NextPrimaryPeers ==
    \/ NextPrimary
    \/ PeerPutInstance

(***************************************************************************)
(* gceAutoscaleProvider.js: the PubSub client's pull and acknowledge.      *)
(*                                                                         *)
(* The subscription is the remote service's: a message is "available",     *)
(* "leased" once a pull response carried it, and "acked" once an           *)
(* acknowledge request naming it succeeded.  A leased message that is not  *)
(* acknowledged becomes available again when its lease runs out.           *)
(***************************************************************************)

\* Largest number of messages a behaviour publishes, and of pulls it makes.
MaxMessages == 3
MaxPulls == 3

\* maxMessages of the pull request body
maxMessages == 10

\* What JSON.parse / the plain string gives for one received message: the
\* message, or undefined when the JSON does not parse.
decode(receivedMessage) ==
    IF receivedMessage.contentType = "application/json" /\ ~receivedMessage.parses
    THEN [defined |-> FALSE]
    ELSE [defined |-> TRUE, data |-> receivedMessage.id]

\* Only the messages that decoded are acknowledged.
ackIdsOfDecoded(received) ==
    LET good == SelectSeq(received, LAMBDA m : decode(m).defined)
    IN  [i \in 1..Len(good) |-> good[i].ackId]

\* receivedMessages.forEach: ackIds.push(receivedMessage.ackId)
ackIdsOf(received) == [i \in 1..Len(received) |-> received[i].ackId]

\* receivedMessages.forEach: messages.push(message)
decodeAll(received) == [i \in 1..Len(received) |-> decode(received[i])]

\* The pull response: the first maxMessages available messages.
RECURSIVE firstAvailable(_, _)
firstAvailable(queue, n) ==
    IF n = 0 \/ Len(queue) = 0 THEN <<>>
    ELSE IF Head(queue).state = "available"
         THEN <<[id |-> Head(queue).id, ackId |-> Head(queue).id,
                 contentType |-> Head(queue).contentType,
                 parses |-> Head(queue).parses]>>
              \o firstAvailable(Tail(queue), n - 1)
         ELSE firstAvailable(Tail(queue), n)

\* The subscription after the messages named ids went to newState.
mark(queue, ids, newState) ==
    [i \in 1..Len(queue) |->
        IF Contains(ids, queue[i].id) THEN [queue[i] EXCEPT !.state = newState]
        ELSE queue[i]]

NewMessage(id, contentType, parses) ==
    [id |-> id, contentType |-> contentType, parses |-> parses, state |-> "available"]

\* What a publisher can put on the topic: text, JSON, or JSON that does not
\* parse (from a publisher other than this client).
MessageKinds ==
    { <<"text/plain", TRUE>>, <<"application/json", TRUE>>, <<"application/json", FALSE>> }

InitPullVars ==
    /\ backlog = <<>>
    /\ published = 0
    /\ pulls = 0
    /\ pullPc = "idle"
    /\ receivedMessages = <<>>
    /\ messages = <<>>
    /\ ackOps = <<>>
    /\ pullResult = <<>>
    /\ handed = <<>>

PullOff ==
    /\ backlog = <<>>
    /\ published = MaxMessages
    /\ pulls = MaxPulls
    /\ pullPc = "off"
    /\ receivedMessages = <<>>
    /\ messages = <<>>
    /\ ackOps = <<>>
    /\ pullResult = <<>>
    /\ handed = <<>>

\* A message is published to the topic and lands on the subscription.
Publish ==
    /\ pullPc # "off"
    /\ published < MaxMessages
    /\ \E k \in MessageKinds :
        backlog' = Append(backlog, NewMessage(published + 1, k[1], k[2]))
    /\ published' = published + 1
    /\ UNCHANGED <<nonPullVars, pulls, pullPc, receivedMessages, messages, ackOps,
                   pullResult, handed>>

\* pull(subscription) is called: the pull request is sent.
Pull ==
    /\ pullPc \in {"idle", "resolved"}
    /\ pulls < MaxPulls
    /\ pulls' = pulls + 1
    /\ pullPc' = "pulling"
    /\ receivedMessages' = <<>>
    /\ messages' = <<>>
    /\ ackOps' = <<>>
    /\ pullResult' = <<>>
    /\ UNCHANGED <<nonPullVars, backlog, published, handed>>

\* The pull response arrives: every message is decoded and its ackId kept;
\* acknowledge sends its request, or with no ackId resolves at once and
\* pull resolves with the (empty) messages.
PullOk ==
    /\ pullPc = "pulling"
    /\ LET received == firstAvailable(backlog, maxMessages)
           ackIds == ackIdsOf(received)
       IN  /\ receivedMessages' = received
           /\ backlog' = mark(backlog, ackIdsOf(received), "leased")
           /\ messages' = decodeAll(received)
           /\ IF Len(ackIds) > 0
              THEN /\ ackOps' = <<[ackIds |-> ackIds, status |-> "inflight"]>>
                   /\ pullPc' = "acking"
                   /\ UNCHANGED <<pullResult, handed>>
              ELSE /\ ackOps' = <<>>
                   /\ pullPc' = "resolved"
                   /\ pullResult' = <<decodeAll(received)>>
                   /\ handed' = Append(handed, <<>>)
    /\ UNCHANGED <<nonPullVars, published, pulls>>

\* initialize or the pull request fails: .catch logs the error and pull
\* resolves with undefined.
PullFail ==
    /\ pullPc = "pulling"
    /\ pullPc' = "resolved"
    /\ pullResult' = <<>>
    /\ UNCHANGED <<nonPullVars, backlog, published, pulls, receivedMessages,
                   messages, ackOps, handed>>

\* The acknowledge request succeeds: the messages leave the subscription
\* and pull resolves with messages.
AcknowledgeOk ==
    /\ pullPc = "acking"
    /\ ackOps' = [ackOps EXCEPT ![1].status = "ok"]
    /\ backlog' = mark(backlog, ackOps[1].ackIds, "acked")
    /\ pullPc' = "resolved"
    /\ pullResult' = <<messages>>
    /\ handed' = Append(handed, [i \in 1..Len(receivedMessages) |-> receivedMessages[i].id])
    /\ UNCHANGED <<nonPullVars, published, pulls, receivedMessages, messages>>

\* The acknowledge request fails: acknowledge's .catch logs the error and
\* resolves, so pull resolves with messages all the same.
AcknowledgeFail ==
    /\ pullPc = "acking"
    /\ ackOps' = [ackOps EXCEPT ![1].status = "failed"]
    /\ pullPc' = "resolved"
    /\ pullResult' = <<messages>>
    /\ handed' = Append(handed, [i \in 1..Len(receivedMessages) |-> receivedMessages[i].id])
    /\ UNCHANGED <<nonPullVars, backlog, published, pulls, receivedMessages, messages>>

\* The lease of a message no pull is about to acknowledge runs out: the
\* service offers the message again.
LeaseExpires ==
    /\ pullPc \in {"idle", "resolved"}
    /\ \E i \in 1..Len(backlog) :
        /\ backlog[i].state = "leased"
        /\ backlog' = [backlog EXCEPT ![i].state = "available"]
    /\ UNCHANGED <<nonPullVars, published, pulls, pullPc, receivedMessages, messages,
                   ackOps, pullResult, handed>>

NextPull ==
    \/ Publish
    \/ Pull
    \/ PullOk
    \/ PullFail
    \/ AcknowledgeOk
    \/ AcknowledgeFail
    \/ LeaseExpires

(***************************************************************************)
(* lib/gceCloudProvider.js: getMessages and sendMessage over one PubSub    *)
(* client (lib/gceAutoscaleProvider.js), with the client's lazy            *)
(* initialization.  The operations of one call run concurrently.           *)
(***************************************************************************)

MaxCalls == 2

MESSAGE_SYNC_COMPLETE == "SYNC_COMPLETE"
MESSAGE_ADD_TO_CLUSTER == "ADD_TO_CLUSTER"

\* initialize: nothing to do on an initialized client, otherwise the
\* project id is fetched first.
initialize(isInitialized) == IF isInitialized THEN "request" ELSE "projectId"

\* A PubSub operation as it starts: its first pending step.
startOperation(fn, name, body, isInitialized) ==
    [fn |-> fn, name |-> name, body |-> body, pc |-> initialize(isInitialized),
     received |-> <<>>, value |-> [defined |-> FALSE]]

\* sendRequest: rejects without an access token; the operation's .catch
\* logs and the operation resolves with undefined.
sendRequest(op, hasToken) ==
    IF hasToken THEN [op EXCEPT !.pc = "request"]
    ELSE [op EXCEPT !.pc = "resolved", !.value = [defined |-> FALSE]]

\* getMessages: the subscriptions of the requested actions, in order.
subscriptionsOf(actions) ==
    LET known == SelectSeq(actions, LAMBDA a :
                     a \in {MESSAGE_SYNC_COMPLETE, MESSAGE_ADD_TO_CLUSTER})
    IN  [i \in 1..Len(known) |->
            IF known[i] = MESSAGE_SYNC_COMPLETE THEN getSyncSubscriptionName
            ELSE getJoinSubscriptionName]

\* sendMessage: the topic of the action.
topicOf(action) ==
    IF action = MESSAGE_ADD_TO_CLUSTER THEN getJoinTopicName
    ELSE IF action = MESSAGE_SYNC_COMPLETE THEN getSyncTopicName
    ELSE <<Undefined>>

\* sendMessage: the message built from the action and the options.
messageOf(action, options) ==
    [action |-> action, toInstanceId |-> options.toInstanceId,
     fromInstanceId |-> options.fromInstanceId]

\* pull: what one received message decodes to; undefined when its JSON does
\* not parse.
decodeReceived(receivedMessage) ==
    IF receivedMessage.contentType = "application/json" /\ ~receivedMessage.parses
    THEN [defined |-> FALSE]
    ELSE [defined |-> TRUE, value |-> receivedMessage.value]

\* Every pulled message is kept, whatever its addressee.
keepMessageAny(options, message) == options.given

\* getMessages: whether the message goes to the result.  Reading
\* message.toInstanceId throws when the message is undefined; a string
\* message has no such property.
keepMessage(options, message) ==
    IF options.given /\ "toInstanceId" \in DOMAIN options
    THEN /\ "toInstanceId" \in DOMAIN message.value
         /\ options.toInstanceId = message.value.toInstanceId
    ELSE options.given

\* getMessages: the .then over the results of the pulls.
filterMessages(subscriptionResults, options) ==
    LET truthy == SelectSeq(subscriptionResults, LAMBDA r : r.defined)
        pulled == Concat([i \in 1..Len(truthy) |-> truthy[i].messages])
        reads == options.given /\ "toInstanceId" \in DOMAIN options
    IN  IF reads /\ \E i \in 1..Len(pulled) : ~pulled[i].defined
        THEN [threw |-> TRUE, messages |-> <<>>]
        ELSE [threw |-> FALSE,
              messages |-> SelectSeq(pulled, LAMBDA m : keepMessage(options, m))]

\* ---- the inputs of the calls ----

JsonMessage(id, to) ==
    [id |-> id, contentType |-> "application/json", parses |-> TRUE,
     value |-> [toInstanceId |-> to, data |-> id]]
TextMessage(id) ==
    [id |-> id, contentType |-> "text/plain", parses |-> TRUE, value |-> [text |-> id]]
BadMessage(id) ==
    [id |-> id, contentType |-> "application/json", parses |-> FALSE]

InboxChoices ==
    { <<>>,
      <<JsonMessage(1, "vm1"), JsonMessage(2, "vm2")>>,
      <<TextMessage(3), JsonMessage(1, "vm1")>>,
      <<JsonMessage(2, "vm2"), BadMessage(4)>> }

ActionChoices ==
    { <<MESSAGE_SYNC_COMPLETE>>, <<MESSAGE_ADD_TO_CLUSTER>>,
      <<MESSAGE_SYNC_COMPLETE, MESSAGE_ADD_TO_CLUSTER>>, <<"OTHER">> }

OptionChoices ==
    { [given |-> FALSE], [given |-> TRUE], [given |-> TRUE, toInstanceId |-> "vm1"] }

SendOptionChoices ==
    { [toInstanceId |-> "vm2", fromInstanceId |-> "vm1"] }

InitMsgVars ==
    /\ initialized = FALSE
    /\ accessToken = FALSE
    /\ initRuns = 0
    /\ inbox \in [{getSyncSubscriptionName, getJoinSubscriptionName} -> InboxChoices]
    /\ outbox = <<>>
    /\ msgCalls = 0
    /\ msgCall = [fn |-> "none"]
    /\ msgPc = "idle"
    /\ psOps = <<>>
    /\ msgResult = <<>>

MsgOff ==
    /\ initialized = FALSE
    /\ accessToken = FALSE
    /\ initRuns = 0
    /\ inbox = <<>>
    /\ outbox = <<>>
    /\ msgCalls = MaxCalls
    /\ msgCall = [fn |-> "none"]
    /\ msgPc = "off"
    /\ psOps = <<>>
    /\ msgResult = <<>>

\* The number of initializations the operations start.
initRunsOf(ops) == Cardinality({i \in 1..Len(ops) : ops[i].pc = "projectId"})

\* getMessages(actions, options) is called: a pull is started for the
\* subscription of every requested action, all in the same turn.
GetMessages ==
    \E actions \in ActionChoices, options \in OptionChoices :
        /\ msgPc \in {"idle", "resolved", "rejected"}
        /\ msgCalls < MaxCalls
        /\ msgCalls' = msgCalls + 1
        /\ msgCall' = [fn |-> "getMessages", actions |-> actions, options |-> options]
        /\ LET subs == subscriptionsOf(actions)
               ops == [i \in 1..Len(subs) |->
                          startOperation("pull", subs[i], <<>>, initialized)]
           IN  /\ psOps' = ops
               /\ initRuns' = initRuns + initRunsOf(ops)
        /\ msgPc' = "pending"
        /\ msgResult' = <<>>
        /\ UNCHANGED <<nonMsgVars, initialized, accessToken, inbox, outbox>>

\* sendMessage(action, options) is called: a publish is started on the
\* topic of the action.
SendMessage ==
    \E action \in {MESSAGE_SYNC_COMPLETE, MESSAGE_ADD_TO_CLUSTER},
       options \in SendOptionChoices :
        /\ msgPc \in {"idle", "resolved", "rejected"}
        /\ msgCalls < MaxCalls
        /\ msgCalls' = msgCalls + 1
        /\ msgCall' = [fn |-> "sendMessage", action |-> action, options |-> options]
        /\ LET ops == <<startOperation("publish", topicOf(action),
                                       messageOf(action, options), initialized)>>
           IN  /\ psOps' = ops
               /\ initRuns' = initRuns + initRunsOf(ops)
        /\ msgPc' = "pending"
        /\ msgResult' = <<>>
        /\ UNCHANGED <<nonMsgVars, initialized, accessToken, inbox, outbox>>

\* initialize: the project id arrives, the token is requested.
ProjectIdOk ==
    \E i \in 1..Len(psOps) :
        /\ psOps[i].pc = "projectId"
        /\ psOps' = [psOps EXCEPT ![i].pc = "token"]
        /\ UNCHANGED <<nonMsgVars, initialized, accessToken, initRuns, inbox, outbox,
                       msgCalls, msgCall, msgPc, msgResult>>

\* initialize: the token arrives; the client is initialized and the
\* operation sends its request.
TokenOk ==
    \E i \in 1..Len(psOps) :
        /\ psOps[i].pc = "token"
        /\ accessToken' = TRUE
        /\ initialized' = TRUE
        /\ psOps' = [psOps EXCEPT ![i] = sendRequest(psOps[i], TRUE)]
        /\ UNCHANGED <<nonMsgVars, initRuns, inbox, outbox, msgCalls, msgCall, msgPc,
                       msgResult>>

\* initialize: a metadata fetch fails; its .catch logs and initialize
\* resolves, so the operation goes on to sendRequest.
InitializeFail ==
    \E i \in 1..Len(psOps) :
        /\ psOps[i].pc \in {"projectId", "token"}
        /\ psOps' = [psOps EXCEPT ![i] = sendRequest(psOps[i], accessToken)]
        /\ UNCHANGED <<nonMsgVars, initialized, accessToken, initRuns, inbox, outbox,
                       msgCalls, msgCall, msgPc, msgResult>>

\* The request of a publish succeeds: the message is on the topic and
\* publish resolves.
PublishOk ==
    \E i \in 1..Len(psOps) :
        /\ psOps[i].fn = "publish" /\ psOps[i].pc = "request"
        /\ outbox' = Append(outbox, [topic |-> psOps[i].name, message |-> psOps[i].body,
                                     call |-> msgCalls])
        /\ psOps' = [psOps EXCEPT ![i].pc = "resolved", ![i].value = [defined |-> TRUE]]
        /\ UNCHANGED <<nonMsgVars, initialized, accessToken, initRuns, inbox, msgCalls,
                       msgCall, msgPc, msgResult>>

\* The request of a pull succeeds: the messages are decoded and, if there
\* are any, acknowledged; without messages pull resolves with [].
PullRequestOk ==
    \E i \in 1..Len(psOps) :
        /\ psOps[i].fn = "pull" /\ psOps[i].pc = "request"
        /\ LET queue == inbox[psOps[i].name]
               received == IF Len(queue) <= maxMessages THEN queue
                           ELSE SubSeq(queue, 1, maxMessages)
               decoded == [k \in 1..Len(received) |-> decodeReceived(received[k])]
           IN  psOps' = [psOps EXCEPT
                   ![i].received = received,
                   ![i].value = [defined |-> TRUE, messages |-> decoded],
                   ![i].pc = IF Len(received) > 0 THEN "acknowledge" ELSE "resolved"]
        /\ UNCHANGED <<nonMsgVars, initialized, accessToken, initRuns, inbox, outbox,
                       msgCalls, msgCall, msgPc, msgResult>>

\* acknowledge resolves, whether or not the service took the
\* acknowledgement (its .catch logs): pull resolves with the messages.
Acknowledged ==
    \E i \in 1..Len(psOps), taken \in BOOLEAN :
        /\ psOps[i].pc = "acknowledge"
        /\ inbox' = IF taken
                    THEN [inbox EXCEPT ![psOps[i].name] =
                             SelectSeq(@, LAMBDA m : ~Contains(psOps[i].received, m))]
                    ELSE inbox
        /\ psOps' = [psOps EXCEPT ![i].pc = "resolved"]
        /\ UNCHANGED <<nonMsgVars, initialized, accessToken, initRuns, outbox, msgCalls,
                       msgCall, msgPc, msgResult>>

\* The request of a publish or a pull fails: the operation's .catch logs
\* and the operation resolves with undefined.
RequestFail ==
    \E i \in 1..Len(psOps) :
        /\ psOps[i].pc = "request"
        /\ psOps' = [psOps EXCEPT ![i].pc = "resolved", ![i].value = [defined |-> FALSE]]
        /\ UNCHANGED <<nonMsgVars, initialized, accessToken, initRuns, inbox, outbox,
                       msgCalls, msgCall, msgPc, msgResult>>

\* q.all of the pulls resolves: getMessages resolves with the filtered
\* messages, or rejects when the filter throws.
GetMessagesSettle ==
    /\ msgPc = "pending" /\ msgCall.fn = "getMessages"
    /\ \A i \in 1..Len(psOps) : psOps[i].pc = "resolved"
    /\ LET r == filterMessages([i \in 1..Len(psOps) |-> psOps[i].value],
                               msgCall.options)
       IN  /\ msgPc' = IF r.threw THEN "rejected" ELSE "resolved"
           /\ msgResult' = r.messages
    /\ UNCHANGED <<nonMsgVars, initialized, accessToken, initRuns, inbox, outbox,
                   msgCalls, msgCall, psOps>>

\* publish resolves: sendMessage, which returns publish's promise, resolves.
SendMessageSettle ==
    /\ msgPc = "pending" /\ msgCall.fn = "sendMessage"
    /\ psOps[1].pc = "resolved"
    /\ msgPc' = "resolved"
    /\ UNCHANGED <<nonMsgVars, initialized, accessToken, initRuns, inbox, outbox,
                   msgCalls, msgCall, psOps, msgResult>>

NextMsg ==
    \/ GetMessages
    \/ SendMessage
    \/ ProjectIdOk
    \/ TokenOk
    \/ InitializeFail
    \/ PublishOk
    \/ PullRequestOk
    \/ Acknowledged
    \/ RequestFail
    \/ GetMessagesSettle
    \/ SendMessageSettle

(***************************************************************************)
(* lib/gceCloudProvider.js: storeUcs and deleteOldestObjects.  An object   *)
(* of the backup/ folder is [name, updated]; the name is a number that     *)
(* stands for backup/<n>.ucs, and the listing is in name order.            *)
(***************************************************************************)

MaxFiles == 3

\* new Date(updated) of an ISO date <<year, month, day>>, as a number that
\* orders like the time value.
DateOf(updated) == (updated[1] - 1970) * 372 + (updated[2] - 1) * 31 + updated[3]

\* The comparator with its verdicts exchanged: newest first.
compareUpdatedNewestFirst(a, b) ==
    IF DateOf(a.updated) < DateOf(b.updated) THEN 1
    ELSE IF DateOf(b.updated) < DateOf(a.updated) THEN -1
    ELSE 0

\* The comparator handed to sort: oldest first.
compareUpdated(a, b) ==
    IF DateOf(a.updated) < DateOf(b.updated) THEN -1
    ELSE IF DateOf(b.updated) < DateOf(a.updated) THEN 1
    ELSE 0

\* x inserted behind the elements the comparator does not put after it.
RECURSIVE insertSorted(_, _)
insertSorted(sorted, x) ==
    IF Len(sorted) = 0 THEN <<x>>
    ELSE IF compareUpdated(x, Head(sorted)) < 0 THEN <<x>> \o sorted
    ELSE <<Head(sorted)>> \o insertSorted(Tail(sorted), x)

\* metadataResults.sort(comparator): a stable sort.
RECURSIVE sortMetadata(_)
sortMetadata(arr) ==
    IF Len(arr) = 0 THEN <<>>
    ELSE insertSorted(sortMetadata(SubSeq(arr, 1, Len(arr) - 1)), arr[Len(arr)])

\* deleteOldestObjects: the deleteData calls, for the first
\* metadataResults.length - maxCopies of the sorted results.
deleteOldest(sorted, copies) ==
    IF Len(sorted) - copies <= 0 THEN <<>>
    ELSE [i \in 1..(Len(sorted) - copies) |->
             [name |-> sorted[i].name, status |-> "inflight"]]

\* The folder after the object was written at the time now.
putFile(files, name, now) ==
    LET before == SelectSeq(files, LAMBDA f : f.name < name)
        after == SelectSeq(files, LAMBDA f : f.name > name)
    IN  before \o <<[name |-> name, updated |-> now]>> \o after

\* ---- the inputs of storeUcs ----

UpdatedChoices == {<<2019, 1, 1>>, <<2019, 1, 2>>, <<2018, 12, 30>>}
UploadTime == <<2019, 2, 1>>

BackupChoices ==
    {SelectSeq([n \in 1..MaxFiles |-> [name |-> n, updated |-> updated[n]]],
               LAMBDA f : f.name \in names) :
        names \in SUBSET (1..MaxFiles), updated \in [1..MaxFiles -> UpdatedChoices]}

InitUcsVars ==
    /\ backupFiles \in BackupChoices
    /\ ucsFile \in {1, MaxFiles + 1}
    /\ maxCopies \in 0..(MaxFiles + 1)
    /\ ucsPc = "idle"
    /\ ucsListing = <<>>
    /\ metadataResults = <<>>
    /\ ucsDeleteOps = <<>>

UcsOff ==
    /\ backupFiles = <<>>
    /\ ucsFile = 0
    /\ maxCopies = 0
    /\ ucsPc = "off"
    /\ ucsListing = <<>>
    /\ metadataResults = <<>>
    /\ ucsDeleteOps = <<>>

\* storeUcs(file, maxCopies, prefix) is called: putData streams the file to
\* backup/<basename>.
StoreUcs ==
    /\ ucsPc = "idle"
    /\ ucsPc' = "putData"
    /\ UNCHANGED <<nonUcsVars, backupFiles, ucsFile, maxCopies, ucsListing,
                   metadataResults, ucsDeleteOps>>

\* The upload finishes: deleteOldestObjects lists the folder.
PutDataOk ==
    /\ ucsPc = "putData"
    /\ backupFiles' = putFile(backupFiles, ucsFile, UploadTime)
    /\ ucsPc' = "getFiles"
    /\ UNCHANGED <<nonUcsVars, ucsFile, maxCopies, ucsListing, metadataResults,
                   ucsDeleteOps>>

\* The listing arrives: with more than maxCopies files the metadata of each
\* is fetched; otherwise both q.all([]) resolve and nothing is deleted.
GetFilesOk ==
    /\ ucsPc = "getFiles"
    /\ ucsListing' = backupFiles
    /\ ucsPc' = IF Len(backupFiles) > maxCopies THEN "getMetadata" ELSE "deleting"
    /\ UNCHANGED <<nonUcsVars, backupFiles, ucsFile, maxCopies, metadataResults,
                   ucsDeleteOps>>

\* The metadata arrives: it is sorted oldest first and a delete is issued
\* for every object beyond maxCopies.
GetMetadataOk ==
    /\ ucsPc = "getMetadata"
    /\ metadataResults' = sortMetadata(ucsListing)
    /\ ucsDeleteOps' = deleteOldest(sortMetadata(ucsListing), maxCopies)
    /\ ucsPc' = "deleting"
    /\ UNCHANGED <<nonUcsVars, backupFiles, ucsFile, maxCopies, ucsListing>>

\* The upload, the listing or a metadata fetch fails: storeUcs rejects.
StoreUcsFail ==
    /\ ucsPc \in {"putData", "getFiles", "getMetadata"}
    /\ ucsPc' = "rejected"
    /\ UNCHANGED <<nonUcsVars, backupFiles, ucsFile, maxCopies, ucsListing,
                   metadataResults, ucsDeleteOps>>

\* file.delete() of an old object resolves: the object is gone.
DeleteDataOk ==
    \E i \in 1..Len(ucsDeleteOps) :
        /\ ucsDeleteOps[i].status = "inflight"
        /\ ucsDeleteOps' = [ucsDeleteOps EXCEPT ![i].status = "ok"]
        /\ backupFiles' = SelectSeq(backupFiles,
                              LAMBDA f : f.name # ucsDeleteOps[i].name)
        /\ UNCHANGED <<nonUcsVars, ucsFile, maxCopies, ucsPc, ucsListing,
                       metadataResults>>

\* file.delete() of an old object rejects.
DeleteDataFail ==
    \E i \in 1..Len(ucsDeleteOps) :
        /\ ucsDeleteOps[i].status = "inflight"
        /\ ucsDeleteOps' = [ucsDeleteOps EXCEPT ![i].status = "failed"]
        /\ UNCHANGED <<nonUcsVars, backupFiles, ucsFile, maxCopies, ucsPc, ucsListing,
                       metadataResults>>

\* q.all(deletePromises) resolves: storeUcs resolves.
StoreUcsResolve ==
    /\ ucsPc = "deleting"
    /\ AllOk(ucsDeleteOps)
    /\ ucsPc' = "resolved"
    /\ UNCHANGED <<nonUcsVars, backupFiles, ucsFile, maxCopies, ucsListing,
                   metadataResults, ucsDeleteOps>>

\* q.all(deletePromises) rejects with the first failure: storeUcs rejects.
StoreUcsReject ==
    /\ ucsPc = "deleting"
    /\ SomeFailed(ucsDeleteOps)
    /\ ucsPc' = "rejected"
    /\ UNCHANGED <<nonUcsVars, backupFiles, ucsFile, maxCopies, ucsListing,
                   metadataResults, ucsDeleteOps>>

NextUcs ==
    \/ StoreUcs
    \/ PutDataOk
    \/ GetFilesOk
    \/ GetMetadataOk
    \/ StoreUcsFail
    \/ DeleteDataOk
    \/ DeleteDataFail
    \/ StoreUcsResolve
    \/ StoreUcsReject

(***************************************************************************)
(* lib/gceCloudProvider.js: tagPrimaryInstance.  A tag is a sequence of    *)
(* tokens, compared as a whole like the strings indexOf compares.          *)
(***************************************************************************)

\* `${this.providerOptions.instanceGroup}-primary`
primaryTag == <<instanceGroup, "-primary">>

\* Array.prototype.indexOf, 1-based; 0 when absent.
IndexOf(arr, x) ==
    IF \E i \in 1..Len(arr) : arr[i] = x
    THEN CHOOSE i \in 1..Len(arr) : arr[i] = x /\ \A j \in 1..(i - 1) : arr[j] # x
    ELSE 0

\* The elected instance is tagged again whether or not it carries the tag.
tagChangeAlways(vmName, primaryIid, hasTag) ==
    IF vmName = primaryIid THEN "add"
    ELSE IF hasTag THEN "remove"
    ELSE "none"

\* The two tests of the loop over the getTags responses.
tagChange(vmName, primaryIid, hasTag) ==
    IF vmName = primaryIid /\ ~hasTag THEN "add"
    ELSE IF vmName # primaryIid /\ hasTag THEN "remove"
    ELSE "none"

\* responses.forEach: the setTags calls issued, in order.
RECURSIVE setTagsCalls(_, _)
setTagsCalls(responses, primaryIid) ==
    IF Len(responses) = 0 THEN <<>>
    ELSE LET response == Head(responses)
             tags == response[1]
             fingerprint == response[2]
             vmName == response[3].name
             hasTag == IndexOf(tags, primaryTag) # 0
             change == tagChange(vmName, primaryIid, hasTag)
             call == IF change = "add"
                     THEN <<[name |-> vmName, tags |-> Append(tags, primaryTag),
                             fingerprint |-> fingerprint, status |-> "inflight"]>>
                     ELSE IF change = "remove"
                     THEN <<[name |-> vmName,
                             tags |-> Splice1(tags, IndexOf(tags, primaryTag)),
                             fingerprint |-> fingerprint, status |-> "inflight"]>>
                     ELSE <<>>
         IN  call \o setTagsCalls(Tail(responses), primaryIid)

\* vm.getTags(): [tags, fingerprint, apiResponse] of the VM.
getTags(tagsOfVms, name) ==
    LET vm == tagsOfVms[CHOOSE i \in 1..Len(tagsOfVms) : tagsOfVms[i].name = name]
    IN  <<vm.tags, vm.fingerprint, [name |-> vm.name]>>

\* ---- the inputs of tagPrimaryInstance ----

TagChoices == {<<>>, <<<<"other-tag">>>>, <<<<"other-tag">>, primaryTag>>}
InstanceKeyChoices == {<<"vm1", "vm2">>, <<"vm1", "vm2", "vm3">>, <<"vm2", "vm4">>}
TagPrimaryChoices == {"vm1", "vm2", "vm9"}

InitTagVars ==
    /\ \E t1 \in TagChoices, t2 \in TagChoices, t3 \in TagChoices :
        vmTags = <<[name |-> "vm1", tags |-> t1, fingerprint |-> 1],
                   [name |-> "vm2", tags |-> t2, fingerprint |-> 1],
                   [name |-> "vm3", tags |-> t3, fingerprint |-> 1]>>
    /\ tagInstances \in InstanceKeyChoices
    /\ tagPrimaryIid \in TagPrimaryChoices
    /\ tagPc = "idle"
    /\ tagResponses = <<>>
    /\ setTagsOps = <<>>

TagOff ==
    /\ vmTags = <<>>
    /\ tagInstances = <<>>
    /\ tagPrimaryIid = Undefined
    /\ tagPc = "off"
    /\ tagResponses = <<>>
    /\ setTagsOps = <<>>

\* tagPrimaryInstance(primaryIid, instances) is called: the zone metadata
\* is requested.
TagPrimaryInstance ==
    /\ tagPc = "idle"
    /\ tagPc' = "zone"
    /\ UNCHANGED <<nonTagVars, vmTags, tagInstances, tagPrimaryIid, tagResponses,
                   setTagsOps>>

\* The zone arrives: a vm object is made for every key of instances and
\* getTags is called on each.
TagZoneOk ==
    /\ tagPc = "zone"
    /\ tagPc' = "getTags"
    /\ UNCHANGED <<nonTagVars, vmTags, tagInstances, tagPrimaryIid, tagResponses,
                   setTagsOps>>

\* Every getTags resolves (each VM exists): the setTags calls are issued.
GetTagsOk ==
    /\ tagPc = "getTags"
    /\ \A k \in 1..Len(tagInstances) :
        \E i \in 1..Len(vmTags) : vmTags[i].name = tagInstances[k]
    /\ LET responses == [k \in 1..Len(tagInstances) |-> getTags(vmTags, tagInstances[k])]
       IN  /\ tagResponses' = responses
           /\ setTagsOps' = setTagsCalls(responses, tagPrimaryIid)
    /\ tagPc' = "setTags"
    /\ UNCHANGED <<nonTagVars, vmTags, tagInstances, tagPrimaryIid>>

\* The zone metadata or a getTags fails: tagPrimaryInstance rejects.
TagQueryFail ==
    /\ tagPc \in {"zone", "getTags"}
    /\ tagPc' = "rejected"
    /\ UNCHANGED <<nonTagVars, vmTags, tagInstances, tagPrimaryIid, tagResponses,
                   setTagsOps>>

\* setTags resolves: the fingerprint was the VM's current one, and the VM
\* has the new tags and a new fingerprint.
SetTagsOk ==
    \E i \in 1..Len(setTagsOps), k \in 1..Len(vmTags) :
        /\ setTagsOps[i].status = "inflight"
        /\ vmTags[k].name = setTagsOps[i].name
        /\ vmTags[k].fingerprint = setTagsOps[i].fingerprint
        /\ setTagsOps' = [setTagsOps EXCEPT ![i].status = "ok"]
        /\ vmTags' = [vmTags EXCEPT ![k].tags = setTagsOps[i].tags,
                                    ![k].fingerprint = @ + 1]
        /\ UNCHANGED <<nonTagVars, tagInstances, tagPrimaryIid, tagPc, tagResponses>>

\* setTags rejects.
SetTagsFail ==
    \E i \in 1..Len(setTagsOps) :
        /\ setTagsOps[i].status = "inflight"
        /\ setTagsOps' = [setTagsOps EXCEPT ![i].status = "failed"]
        /\ UNCHANGED <<nonTagVars, vmTags, tagInstances, tagPrimaryIid, tagPc,
                       tagResponses>>

\* q.all of the setTags calls resolves: tagPrimaryInstance resolves.
TagResolve ==
    /\ tagPc = "setTags"
    /\ AllOk(setTagsOps)
    /\ tagPc' = "resolved"
    /\ UNCHANGED <<nonTagVars, vmTags, tagInstances, tagPrimaryIid, tagResponses,
                   setTagsOps>>

\* q.all of the setTags calls rejects: tagPrimaryInstance rejects.
TagReject ==
    /\ tagPc = "setTags"
    /\ SomeFailed(setTagsOps)
    /\ tagPc' = "rejected"
    /\ UNCHANGED <<nonTagVars, vmTags, tagInstances, tagPrimaryIid, tagResponses,
                   setTagsOps>>

NextTag ==
    \/ TagPrimaryInstance
    \/ TagZoneOk
    \/ GetTagsOk
    \/ TagQueryFail
    \/ SetTagsOk
    \/ SetTagsFail
    \/ TagResolve
    \/ TagReject

(***************************************************************************)
(* gceCloudProvider.js: getDataFromUri and getData.                        *)
(*                                                                         *)
(* A URI is a sequence of tokens; 'gs://' and '/' are one token each and   *)
(* no other token holds one of their characters, so that startsWith, split *)
(* and join on tokens are the string operations.                           *)
(***************************************************************************)

\* Number of tokens of a URI.
MaxUriLen == 6

\* const gsutilPrefix = 'gs://'
gsutilPrefix == "gs://"

\* this.storageBucket: the bucket the provider was initialized with.
storageBucket == <<"storageBucket">>

\* String.prototype.startsWith(prefix), for a prefix of one token.
startsWith(str, prefix) == Len(str) > 0 /\ str[1] = prefix

\* String.prototype.split(separator), for a separator of one token: the
\* pieces between the occurrences of the separator, empty pieces included.
RECURSIVE split(_, _)
split(str, separator) ==
    IF \A i \in 1..Len(str) : str[i] # separator THEN <<str>>
    ELSE LET k == CHOOSE i \in 1..Len(str) :
                    /\ str[i] = separator
                    /\ \A j \in 1..(i - 1) : str[j] # separator
         IN  <<SubSeq(str, 1, k - 1)>> \o split(SubSeq(str, k + 1, Len(str)), separator)

\* Array.prototype.join(separator).
RECURSIVE join(_, _)
join(parts, separator) ==
    IF Len(parts) = 0 THEN <<>>
    ELSE IF Len(parts) = 1 THEN parts[1]
    ELSE parts[1] \o <<separator>> \o join(Tail(parts), separator)

\* The synchronous part of getDataFromUri(uri): the rejection, or the
\* arguments of the getData call.
getDataFromUri(aUri) ==
    IF ~startsWith(aUri, gsutilPrefix)
    THEN [rejected |-> TRUE,
          message |-> <<"Invalid URI", ". URI should be a gsutil.">>]
    ELSE LET parts == split(split(aUri, gsutilPrefix)[2], "/")
         IN  IF Len(parts) < 2 \/ parts[2] = <<>>
             THEN [rejected |-> TRUE,
                   message |-> <<"Invalid URI", ". Format should be gs://bucket/filename">>]
             ELSE [rejected |-> FALSE, fileName |-> join(Tail(parts), "/"),
                   options |-> [bucket |-> parts[1]]]

\* getData(fileName, options): the bucket the file is read from; an empty
\* options.bucket is falsy, so the provider's own bucket is read.
bucketOf(options) ==
    IF "bucket" \in DOMAIN options /\ options.bucket # <<>>
    THEN options.bucket ELSE storageBucket

\* getData: the value resolved for the content type of the object's metadata.
decodeData(contentType) ==
    CASE contentType = "application/octet-stream" -> "buffer"
      [] contentType = "application/json" -> "parsed"
      [] OTHER -> "string"

UriTokens == {gsutilPrefix, "/", "a", "k"}
UriChoices == UNION {[1..n -> UriTokens] : n \in 0..MaxUriLen}
ContentTypes == {"application/octet-stream", "application/json", "text/plain", ""}

InitUriVars ==
    /\ uri \in UriChoices
    /\ uriPc = "idle"
    /\ uriRead = <<>>
    /\ uriResult = [state |-> "pending"]

UriOff ==
    /\ uri = <<>>
    /\ uriPc = "off"
    /\ uriRead = <<>>
    /\ uriResult = [state |-> "pending"]

\* getDataFromUri(uri) is called: it rejects at once, or calls getData,
\* which issues file.download().
GetDataFromUri ==
    /\ uriPc = "idle"
    /\ LET r == getDataFromUri(uri)
       IN  IF r.rejected
           THEN /\ uriPc' = "rejected"
                /\ uriRead' = <<>>
                /\ uriResult' = [state |-> "rejected", message |-> r.message]
           ELSE /\ uriPc' = "download"
                /\ uriRead' = <<[fileName |-> r.fileName, options |-> r.options,
                                 bucket |-> bucketOf(r.options)]>>
                /\ UNCHANGED uriResult
    /\ UNCHANGED <<nonUriVars, uri>>

\* file.download() resolves: getData asks for the metadata.
DownloadOk ==
    /\ uriPc = "download"
    /\ uriPc' = "getMetadata"
    /\ UNCHANGED <<nonUriVars, uri, uriRead, uriResult>>

\* file.getMetadata() resolves: the data is returned as the content type
\* says; JSON.parse throws on a malformed JSON object and .catch rejects.
MetadataOk ==
    /\ uriPc = "getMetadata"
    /\ \E contentType \in ContentTypes, wellFormed \in BOOLEAN :
          IF decodeData(contentType) = "parsed" /\ ~wellFormed
          THEN /\ uriPc' = "rejected"
               /\ uriResult' = [state |-> "rejected", message |-> <<"SyntaxError">>]
          ELSE /\ uriPc' = "resolved"
               /\ uriResult' = [state |-> "resolved", data |-> decodeData(contentType)]
    /\ UNCHANGED <<nonUriVars, uri, uriRead>>

\* file.download() or file.getMetadata() rejects: getData's .catch rejects.
ReadFail ==
    /\ uriPc \in {"download", "getMetadata"}
    /\ uriPc' = "rejected"
    /\ uriResult' = [state |-> "rejected", message |-> <<"read error">>]
    /\ UNCHANGED <<nonUriVars, uri, uriRead>>

NextUri ==
    \/ GetDataFromUri
    \/ DownloadOk
    \/ MetadataOk
    \/ ReadFail

(***************************************************************************)
(* gceCloudProvider.js: getStoredUcs.                                      *)
(*                                                                         *)
(* file.getMetadata() resolves with the pair [metadata, apiResponse]; the  *)
(* API response of an object's metadata request is the object resource, so *)
(* both elements carry the object's name and update time.                  *)
(***************************************************************************)

\* The comparator handed to sort in getStoredUcs: newest first.
compareNewest(a, b) ==
    IF DateOf(a.updated) < DateOf(b.updated) THEN 1
    ELSE IF DateOf(b.updated) < DateOf(a.updated) THEN -1
    ELSE 0

\* x inserted behind the elements compareNewest does not put after it.
RECURSIVE insertNewest(_, _)
insertNewest(sorted, x) ==
    IF Len(sorted) = 0 THEN <<x>>
    ELSE IF compareNewest(x, Head(sorted)) < 0 THEN <<x>> \o sorted
    ELSE <<Head(sorted)>> \o insertNewest(Tail(sorted), x)

\* metadataResults.sort(comparator) in getStoredUcs: a stable sort.
RECURSIVE sortNewest(_)
sortNewest(arr) ==
    IF Len(arr) = 0 THEN <<>>
    ELSE insertNewest(sortNewest(SubSeq(arr, 1, Len(arr) - 1)), arr[Len(arr)])

\* const metadataResults = results[0] || []: the first element of the q.all
\* results, which is the [metadata, apiResponse] pair of the first file.
metadataOf(results) == IF Len(results) = 0 THEN <<>> ELSE results[1]

InitStoredVars ==
    /\ storedFiles \in BackupChoices
    /\ gsPc = "idle"
    /\ gsResults = <<>>
    /\ gsMetadataResults = <<>>
    /\ gsResult = [state |-> "pending"]

StoredOff ==
    /\ storedFiles = <<>>
    /\ gsPc = "off"
    /\ gsResults = <<>>
    /\ gsMetadataResults = <<>>
    /\ gsResult = [state |-> "pending"]

\* getStoredUcs() is called: storageBucket.getFiles({prefix: 'backup/'}).
GetStoredUcs ==
    /\ gsPc = "idle"
    /\ gsPc' = "getFiles"
    /\ UNCHANGED <<nonStoredVars, storedFiles, gsResults, gsMetadataResults, gsResult>>

\* getFiles resolves: getMetadata is asked of every file of the listing.
StoredFilesOk ==
    /\ gsPc = "getFiles"
    /\ gsPc' = "getMetadata"
    /\ UNCHANGED <<nonStoredVars, storedFiles, gsResults, gsMetadataResults, gsResult>>

\* q.all(metadataPromises) resolves with one [metadata, apiResponse] pair per
\* file, in listing order; the results are reduced and sorted, and the
\* first one's object is read, or getStoredUcs resolves with undefined.
StoredMetadataOk ==
    /\ gsPc = "getMetadata"
    /\ LET results == [i \in 1..Len(storedFiles) |-> <<storedFiles[i], storedFiles[i]>>]
           sorted == sortNewest(metadataOf(results))
       IN  /\ gsResults' = results
           /\ gsMetadataResults' = sorted
           /\ IF Len(sorted) > 0
              THEN /\ gsPc' = "getData"
                   /\ UNCHANGED gsResult
              ELSE /\ gsPc' = "resolved"
                   /\ gsResult' = [state |-> "resolved", data |-> Undefined]
    /\ UNCHANGED <<nonStoredVars, storedFiles>>

\* getData(metadataResults[0].name) resolves with the object's content.
StoredDataOk ==
    /\ gsPc = "getData"
    /\ gsPc' = "resolved"
    /\ gsResult' = [state |-> "resolved", data |-> gsMetadataResults[1].name]
    /\ UNCHANGED <<nonStoredVars, storedFiles, gsResults, gsMetadataResults>>

\* getFiles, a getMetadata or getData rejects: getStoredUcs rejects.
StoredFail ==
    /\ gsPc \in {"getFiles", "getMetadata", "getData"}
    /\ gsPc' = "rejected"
    /\ gsResult' = [state |-> "rejected"]
    /\ UNCHANGED <<nonStoredVars, storedFiles, gsResults, gsMetadataResults>>

NextStored ==
    \/ GetStoredUcs
    \/ StoredFilesOk
    \/ StoredMetadataOk
    \/ StoredDataOk
    \/ StoredFail

(***************************************************************************)
(* The specifications.                                                     *)
(***************************************************************************)

InitFailover ==
    /\ InitFailoverVars /\ ElectOff /\ InstOff /\ PrimaryOff /\ PullOff
    /\ MsgOff /\ UcsOff /\ TagOff /\ UriOff /\ StoredOff
InitElect ==
    /\ InitElectVars /\ FailoverOff /\ InstOff /\ PrimaryOff /\ PullOff
    /\ MsgOff /\ UcsOff /\ TagOff /\ UriOff /\ StoredOff
InitInst ==
    /\ InitInstVars /\ FailoverOff /\ ElectOff /\ PrimaryOff /\ PullOff
    /\ MsgOff /\ UcsOff /\ TagOff /\ UriOff /\ StoredOff
InitPrimary ==
    /\ InitPrimaryVars /\ FailoverOff /\ ElectOff /\ InstQuiet /\ PullOff
    /\ MsgOff /\ UcsOff /\ TagOff /\ UriOff /\ StoredOff
InitPull ==
    /\ InitPullVars /\ FailoverOff /\ ElectOff /\ InstOff /\ PrimaryOff
    /\ MsgOff /\ UcsOff /\ TagOff /\ UriOff /\ StoredOff
InitMsg ==
    /\ InitMsgVars /\ FailoverOff /\ ElectOff /\ InstOff /\ PrimaryOff
    /\ PullOff /\ UcsOff /\ TagOff /\ UriOff /\ StoredOff
InitUcs ==
    /\ InitUcsVars /\ FailoverOff /\ ElectOff /\ InstOff /\ PrimaryOff
    /\ PullOff /\ MsgOff /\ TagOff /\ UriOff /\ StoredOff
InitTag ==
    /\ InitTagVars /\ FailoverOff /\ ElectOff /\ InstOff /\ PrimaryOff
    /\ PullOff /\ MsgOff /\ UcsOff /\ UriOff /\ StoredOff
InitUri ==
    /\ InitUriVars /\ FailoverOff /\ ElectOff /\ InstOff /\ PrimaryOff
    /\ PullOff /\ MsgOff /\ UcsOff /\ TagOff /\ StoredOff
InitStored ==
    /\ InitStoredVars /\ FailoverOff /\ ElectOff /\ InstOff /\ PrimaryOff
    /\ PullOff /\ MsgOff /\ UcsOff /\ TagOff /\ UriOff

SpecFailover == InitFailover /\ [][NextFailover]_vars
SpecElect == InitElect /\ [][NextElect]_vars
SpecInst == InitInst /\ [][NextInst]_vars
SpecPrimary == InitPrimary /\ [][NextPrimary]_vars
SpecPrimaryPeers == InitPrimary /\ [][NextPrimaryPeers]_vars
SpecPull == InitPull /\ [][NextPull]_vars
SpecMsg == InitMsg /\ [][NextMsg]_vars
SpecUcs == InitUcs /\ [][NextUcs]_vars
SpecTag == InitTag /\ [][NextTag]_vars
SpecUri == InitUri /\ [][NextUri]_vars
SpecStored == InitStored /\ [][NextStored]_vars

\* The runs that have forwarding rules to look at next to the NICs.
RuleScenes == {sc \in FailoverScenes : sc[3] # NoRules}

InitFailoverFair ==
    /\ InitFailover
    /\ <<<<tgStats, virtualAddresses>>, liveVms, <<targetInstances, liveRules>>>> \in RuleScenes

\* The failover run when every remote call returns (each attempt resolves or
\* rejects) and every promise callback that is due runs.
SpecFailoverFair ==
    /\ InitFailoverFair
    /\ [][NextFailover]_vars
    /\ WF_vars(DisassociateOk \/ DisassociateFail)
    /\ WF_vars(ThenAssociate)
    /\ WF_vars(AssociateOk \/ AssociateFail)
    /\ WF_vars(NicResolve)
    /\ WF_vars(NicCatch)
    /\ WF_vars(FwdRuleOk \/ FwdRuleFail)
    /\ WF_vars(FwdResolve)
    /\ WF_vars(FwdCatch)
    /\ WF_vars(MainComplete)
    /\ WF_vars(MainFailed)

(***************************************************************************)
(* Properties of the failover run.                                         *)
(***************************************************************************)

Issued(ops) == Len(ops) > 0

\* C1: in one run of updateNics no associate NIC update is issued until
\* every disassociate NIC update of the run has completed successfully, and
\* none is issued in a run in which a disassociate update has failed after
\* its retries.
C1_DisassociateBeforeAssociate ==
    /\ Issued(assocOps) => AllOk(disOps)
    /\ SomeFailed(disOps) => ~Issued(assocOps)

\* C1 happens: associate updates are out after a batch of two disassociate
\* updates of which one needed a retry.
C1_Witness ==
    /\ Issued(assocOps)
    /\ Len(disOps) = 2
    /\ \E i \in 1..Len(disOps) : disOps[i].retries > 0

\* The addresses this instance owns, and CIDR containment stated on the
\* 32-bit value of the addresses (independently of matchIps).
OwnedAddresses == {getTgAddresses[i].address : i \in 1..Len(getTgAddresses)}
PrefixBits(str) == IF str.suffix = <<>> THEN 32 ELSE str.suffix[1]
RangeHolds(alias, address) ==
    ipToNumber(alias.ipCidrRange.oct) \div Pow2(32 - PrefixBits(alias.ipCidrRange))
        = ipToNumber(address.oct) \div Pow2(32 - PrefixBits(alias.ipCidrRange))
Owned(alias) == \E a \in OwnedAddresses : RangeHolds(alias, a)

AliasesOf(nic) == IF "aliasIpRanges" \in DOMAIN nic THEN nic.aliasIpRanges ELSE <<>>
PeerVms(vmList) == {i \in 1..Len(vmList) : vmList[i].name # instanceName}
MyNicNames(vmList) ==
    IF myVmIndex(vmList) = 0 THEN {}
    ELSE {vmList[myVmIndex(vmList)].networkInterfaces[n].name :
            n \in 1..Len(vmList[myVmIndex(vmList)].networkInterfaces)}

\* The disassociate and associate updates submitted for a NIC.
DisassociatesFor(vmName, nicName) ==
    {i \in 1..Len(disassociateArr) :
        disassociateArr[i].vmName = vmName /\ disassociateArr[i].nicName = nicName}
AssociatesFor(nicName) ==
    {i \in 1..Len(associateArr) : associateArr[i].nicName = nicName}

\* C9: after updateNics has succeeded, for every peer NIC that held an alias
\* range matching an owned address: the alias list submitted in its
\* disassociate update holds none of its matching ranges and all of its other
\* ranges, in their order; and when this instance has a NIC of the same name,
\* the alias list submitted in that NIC's associate update holds the range.
\* A peer NIC without a matching range gets no update.
C9_AliasMoved ==
    nicPc = "resolved" =>
        \A v \in PeerVms(fetchedVms) :
            \A n \in 1..Len(fetchedVms[v].networkInterfaces) :
                LET nic == fetchedVms[v].networkInterfaces[n]
                    held == AliasesOf(nic)
                    dis == DisassociatesFor(fetchedVms[v].name, nic.name)
                IN  IF \E k \in 1..Len(held) : Owned(held[k])
                    THEN /\ Cardinality(dis) = 1
                         /\ \A i \in dis :
                              disassociateArr[i].nic.aliasIpRanges
                                = SelectSeq(held, LAMBDA a : ~Owned(a))
                         /\ nic.name \in MyNicNames(fetchedVms) =>
                              /\ AssociatesFor(nic.name) # {}
                              /\ \A i \in AssociatesFor(nic.name) :
                                  \A k \in 1..Len(held) :
                                      Owned(held[k]) =>
                                          held[k] \in Range(associateArr[i].nic.aliasIpRanges)
                    ELSE dis = {}

\* C9 happens: updateNics has succeeded for a peer NIC that held a matching
\* range next to another range, with a same-named NIC on this instance.
C9_Witness ==
    /\ nicPc = "resolved"
    /\ \E v \in PeerVms(fetchedVms) :
        \E n \in 1..Len(fetchedVms[v].networkInterfaces) :
            LET nic == fetchedVms[v].networkInterfaces[n]
                held == AliasesOf(nic)
            IN  /\ \E k \in 1..Len(held) : Owned(held[k])
                /\ \E k \in 1..Len(held) : ~Owned(held[k])
                /\ nic.name \in MyNicNames(fetchedVms)
                /\ AllOk(assocOps) /\ Issued(assocOps)

\* C10: a run that follows a run that ended 'Failover Complete' issues no
\* disassociate, no associate and no forwarding-rule update.
C10_RerunIsNoOp ==
    prevRun.outcome = "complete" =>
        /\ Len(disassociateArr) = 0 /\ Len(disOps) = 0
        /\ Len(associateArr) = 0 /\ Len(assocOps) = 0
        /\ Len(fwdRulesToUpdate) = 0 /\ Len(fwdOps) = 0

\* C10 happens: a second run has gone through updateNics and updateFwdRules
\* to 'Failover Complete' after a first run that completed with a
\* disassociate, an associate and a forwarding-rule update.
C10_Witness ==
    /\ prevRun.outcome = "complete"
    /\ prevRun.updates >= 3
    /\ mainPc = "complete"
    /\ nicPc = "resolved"
    /\ fwdPc = "resolved"

\* updateNics has been called in the current run, and this instance's name
\* is not among the VMs it was given.
MeAbsent ==
    /\ nicPc # "none"
    /\ \A i \in 1..Len(fetchedVms) : fetchedVms[i].name # instanceName

NoNicUpdate == Len(disOps) = 0 /\ Len(assocOps) = 0

\* C13 as stated: if this instance's name is not among the VMs of the live
\* list, updateNics rejects at once and issues no NIC update, whatever the
\* set of owned traffic-group addresses is.
C13_AbsentAlwaysRejects ==
    MeAbsent => nicPc = "rejected" /\ NoNicUpdate

\* C13, amended: if this instance's name is not among the VMs of the live
\* list, updateNics issues no NIC update; it rejects at once when this
\* instance owns at least one traffic-group address, and resolves ("skipping")
\* when it owns none, because the address test comes first.
C13_AbsentRejectsWhenOwning ==
    MeAbsent =>
        /\ NoNicUpdate
        /\ nicPc = IF OwnedAddresses # {} THEN "rejected" ELSE "skipped"

\* The run failed on an absent instance although a peer NIC holds a range
\* with an owned address.
C13_Witness ==
    /\ MeAbsent
    /\ mainPc = "failed"
    /\ nicPc = "rejected"
    /\ \E v \in 1..Len(fetchedVms) :
        \E n \in 1..Len(fetchedVms[v].networkInterfaces) :
            LET nic == fetchedVms[v].networkInterfaces[n]
            IN  /\ "aliasIpRanges" \in DOMAIN nic
                /\ \E k \in 1..Len(nic.aliasIpRanges) : Owned(nic.aliasIpRanges[k])

\* updateFwdRules has been called in the current run, and no target instance
\* refers to this instance.
NoTargetForMe ==
    /\ fwdPc # "none"
    /\ \A i \in 1..Len(targetInstances) :
        targetInstances[i].instance[Len(targetInstances[i].instance)] # instanceName

NoRuleUpdate == Len(fwdOps) = 0 /\ liveRules = fetchedRules

\* C16 as stated: when no target-instance resource refers to this instance,
\* updateFwdRules rejects and no forwarding rule is updated.
C16_NoTargetAlwaysRejects ==
    NoTargetForMe => fwdPc = "rejected" /\ NoRuleUpdate

\* C16, amended: when no target-instance resource refers to this instance, no
\* forwarding rule is updated; updateFwdRules rejects when this instance owns
\* at least one traffic-group address, and resolves ("skipping") when it owns
\* none.
C16_NoTargetRejectsWhenOwning ==
    NoTargetForMe =>
        /\ NoRuleUpdate
        /\ fwdPc = IF OwnedAddresses # {} THEN "rejected" ELSE "skipped"

\* The run failed for want of a target instance although a forwarding rule
\* has an owned address.
C16_Witness ==
    /\ NoTargetForMe
    /\ mainPc = "failed"
    /\ fwdPc = "rejected"
    /\ \E i \in 1..Len(fetchedRules) : fetchedRules[i].IPAddress \in OwnedAddresses

\* Every retrier of the current run, with the interval its batch asks for.
RetriersOk(ops, intervalMs) ==
    \A i \in 1..Len(ops) :
        /\ ops[i].retries <= 4
        /\ ops[i].status = "failed" => ops[i].retries = 4
        /\ ops[i].retryIntervalMs = intervalMs

Exhausted == SomeFailed(disOps) \/ SomeFailed(assocOps) \/ SomeFailed(fwdOps)

\* C14: each NIC update and each forwarding-rule update is attempted a
\* bounded number of times (maxRetries 4) at a fixed interval (15 s for NICs,
\* 60 s for rules); provided every remote call returns, a failover run ends
\* by reporting completion or failure, and it reports failure when an update
\* exhausts its retries.
C14_BoundedRetriesThenVerdict ==
    /\ [](/\ RetriersOk(disOps, 15000)
          /\ RetriersOk(assocOps, 15000)
          /\ RetriersOk(fwdOps, 60000)
          /\ mainPc = "complete" => ~Exhausted)
    /\ (mainPc = "updating") ~> (mainPc \in {"complete", "failed"})
    /\ (mainPc = "updating" /\ Exhausted) ~> (mainPc = "failed")

\* The run reported failure after a forwarding-rule update used up its
\* retries, while the NIC updates went through after a retry.
C14_Witness ==
    /\ mainPc = "failed"
    /\ nicPc = "resolved"
    /\ \E i \in 1..Len(assocOps) : assocOps[i].retries > 0
    /\ \E i \in 1..Len(fwdOps) : fwdOps[i].status = "failed" /\ fwdOps[i].retries = 4

\* The target instances that refer to this instance, by index.
MyTargets ==
    {i \in 1..Len(targetInstances) :
        targetInstances[i].instance[Len(targetInstances[i].instance)] = instanceName}

\* This instance's target instance: the first of them.
MyTarget == targetInstances[CHOOSE i \in MyTargets : \A j \in MyTargets : i <= j]

RuleOwned(rule) == \E a \in OwnedAddresses : a.oct = rule.IPAddress.oct

Queued(rule) ==
    \E i \in 1..Len(fwdRulesToUpdate) : fwdRulesToUpdate[i].name = rule.name

\* C15: updateFwdRules queues a forwarding rule for update if and only if
\* the rule's IP address matches an owned virtual address and the rule's
\* current target is not this instance's target instance; each queued rule
\* is re-pointed at this instance's target instance and no other rule is
\* updated.
C15_QueuedIffOwnedAndElsewhere ==
    (fwdPc # "none" /\ MyTargets # {}) =>
        /\ \A i \in 1..Len(fetchedRules) :
            Queued(fetchedRules[i]) <=>
                /\ RuleOwned(fetchedRules[i])
                /\ fetchedRules[i].target # MyTarget.selfLink
        /\ \A i \in 1..Len(fwdRulesToUpdate) :
            fwdRulesToUpdate[i].target = MyTarget.selfLink
        /\ Len(fwdOps) = Len(fwdRulesToUpdate)

\* Some member of the batch is still on its way.
SomeInflight(ops) == \E i \in 1..Len(ops) : ops[i].status = "inflight"

\* C35: in a jointly awaited batch (the disassociate batch, the associate
\* batch, the forwarding-rule batch, and the pair updateNics/updateFwdRules)
\* the first member failure can be reported to the caller at once, whatever
\* the state of the siblings; the siblings already issued are not cancelled:
\* after the report they are still in flight and can still complete, changing
\* the network state.
C35_FirstFailureReportedSiblingsRun ==
    /\ (nicPc = "disassociate" /\ SomeFailed(disOps)) => ENABLED NicCatch
    /\ (nicPc = "associate" /\ SomeFailed(assocOps)) => ENABLED NicCatch
    /\ (fwdPc = "updating" /\ SomeFailed(fwdOps)) => ENABLED FwdCatch
    /\ (mainPc = "updating" /\ (nicPc = "rejected" \/ fwdPc = "rejected"))
            => ENABLED MainFailed
    /\ SomeInflight(disOps) => ENABLED DisassociateOk
    /\ SomeInflight(assocOps) => ENABLED AssociateOk
    /\ SomeInflight(fwdOps) => ENABLED FwdRuleOk

\* C35 happens: the run has reported 'Failover Failed' on the first failed
\* disassociate update while the other disassociate update of the batch is
\* still in flight.
C35_Witness ==
    /\ mainPc = "failed"
    /\ nicPc = "rejected"
    /\ SomeFailed(disOps)
    /\ SomeInflight(disOps)

\* A forwarding rule has been re-pointed at this instance in the current run.
RuleRepointed ==
    \E i \in 1..Len(fwdOps) :
        /\ fwdOps[i].status = "ok"
        /\ \E r \in 1..Len(liveRules) :
            /\ liveRules[r].name = fwdRulesToUpdate[i].name
            /\ liveRules[r].target = fwdRulesToUpdate[i].target
            /\ fetchedRules[r].target # liveRules[r].target

\* C34: forwarding-rule remediation does not depend on the NIC outcome:
\* whenever updateNics has been called in a run, updateFwdRules has been
\* called too and has issued its updates from the rules as fetched, whatever
\* updateNics returned; a rule update in flight can complete whatever the
\* state of the NIC batches; and the run reports 'Failover Complete' only if
\* both procedures succeeded.
C34_RulesIndependentOfNics ==
    /\ (nicPc = "none") <=> (fwdPc = "none")
    /\ fwdPc # "none" =>
        /\ fwdPc \in {"updating", "resolved", "rejected"} =>
              fwdRulesToUpdate
                = updateFwdRules(fetchedRules, targetInstances).fwdRulesToUpdate
        /\ Len(fwdOps) = Len(fwdRulesToUpdate)
    /\ \A i \in 1..Len(fwdOps) :
          fwdOps[i].status = "inflight" =>
              ENABLED (/\ FwdRuleOk
                       /\ fwdOps'[i].status = "ok"
                       /\ nicPc' = nicPc)
    /\ mainPc = "complete" =>
          /\ nicPc \in {"skipped", "resolved"}
          /\ fwdPc \in {"skipped", "resolved"}

\* C34 happens: a forwarding rule has been re-pointed at this instance in a
\* run whose NIC updates failed on the disassociate batch, and the run has
\* reported failure.
C34_Witness ==
    /\ RuleRepointed
    /\ nicPc = "rejected"
    /\ SomeFailed(disOps)
    /\ mainPc = "failed"

\* How often a range occurs in an alias list.
Count(list, x) == Len(SelectSeq(list, LAMBDA e : e = x))

\* The ranges the disassociate update d removes from its peer NIC: those the
\* NIC held more often when fetched than the submitted alias list holds them.
RemovedBy(d) ==
    UNION { UNION { IF /\ fetchedVms[v].name = disassociateArr[d].vmName
                       /\ fetchedVms[v].networkInterfaces[n].name
                            = disassociateArr[d].nicName
                    THEN LET held == AliasesOf(fetchedVms[v].networkInterfaces[n])
                         IN  {held[k] : k \in {j \in 1..Len(held) :
                                Count(held, held[j])
                                  > Count(disassociateArr[d].nic.aliasIpRanges, held[j])}}
                    ELSE {} :
                    n \in 1..Len(fetchedVms[v].networkInterfaces) } :
            v \in PeerVms(fetchedVms) }

\* C33: within one updateNics run, every alias range removed from a peer
\* NIC's alias list is included in the alias list of an associate update for
\* one of this instance's NICs, also when this instance has no NIC with the
\* same name as the peer NIC.
C33_RemovedIsAssociated ==
    \A d \in 1..Len(disassociateArr) :
        \A r \in RemovedBy(d) :
            \E a \in 1..Len(associateArr) :
                /\ associateArr[a].vmName = instanceName
                /\ r \in Range(associateArr[a].nic.aliasIpRanges)

\* The ranges attached to some NIC of the VMs of a list.
AttachedIn(vmList) ==
    UNION { UNION { Range(AliasesOf(vmList[v].networkInterfaces[n])) :
                    n \in 1..Len(vmList[v].networkInterfaces) } :
            v \in 1..Len(vmList) }

\* The ranges attached to a NIC of this instance.
AttachedToMe(vmList) ==
    AttachedIn(SelectSeq(vmList, LAMBDA vm : vm.name = instanceName))

\* C32: no address is lost across failover runs: once a run reports
\* 'Failover Complete', every owned alias range that was attached to some NIC
\* of the deployment before the first run is attached to a NIC of this
\* instance, whatever runs came before it (a run may have failed after its
\* disassociate batch succeeded).
C32_NoAddressLost ==
    mainPc = "complete" =>
        \A r \in AttachedIn(deployedVms) :
            Owned(r) => r \in AttachedToMe(liveVms)

(***************************************************************************)
(* Properties of electPrimary.                                             *)
(***************************************************************************)

\* The instances of the dictionary that may be elected, and those of them
\* that are external.
Eligible == {k \in 1..Len(instances) :
                instances[k][2].versionOk /\ instances[k][2].providerVisible}
EligibleExternal == {k \in Eligible : instances[k][2].external}

\* a <= b for two addresses as 32-bit integers: the first octet that differs
\* decides.
IpLeq(a, b) ==
    \/ a = b
    \/ \E i \in 1..4 : a[i] < b[i] /\ \A j \in 1..(i - 1) : a[j] = b[j]

LowestAmong(k, set) ==
    /\ k \in set
    /\ \A j \in set : IpLeq(instances[k][2].privateIp, instances[j][2].privateIp)

\* C2: when no eligible instance is external (and some instance is
\* eligible), electPrimary returns the id of an eligible instance whose
\* private IP, as a 32-bit integer, is the lowest among the eligible ones.
C2_LowestIpElected ==
    (electPc = "done" /\ EligibleExternal = {} /\ Eligible # {}) =>
        \E k \in Eligible : instances[k][1] = primaryId /\ LowestAmong(k, Eligible)

\* C2 happens: two eligible instances, none external, whose addresses order
\* differently as strings ("10.0.0.10" before "9.0.0.200") and as numbers.
C2_Witness ==
    /\ electPc = "done"
    /\ EligibleExternal = {}
    /\ \E k, j \in Eligible :
        /\ instances[k][2].privateIp = <<9, 0, 0, 200>>
        /\ instances[j][2].privateIp = <<10, 0, 0, 10>>
        /\ j < k
        /\ primaryId = instances[k][1]

\* C3: when some eligible instance is external, electPrimary returns the id
\* of the lowest-IP instance among the eligible external ones.
C3_ExternalPreferred ==
    (electPc = "done" /\ EligibleExternal # {}) =>
        \E k \in EligibleExternal :
            instances[k][1] = primaryId /\ LowestAmong(k, EligibleExternal)

\* C3 happens: an eligible instance that is not external has a lower address
\* than every eligible external one.
C3_Witness ==
    /\ electPc = "done"
    /\ EligibleExternal # {}
    /\ \E j \in Eligible \ EligibleExternal :
        \A k \in EligibleExternal :
            /\ instances[j][2].privateIp # instances[k][2].privateIp
            /\ IpLeq(instances[j][2].privateIp, instances[k][2].privateIp)

\* C4: whenever electPrimary returns an id, it is a key of the dictionary
\* whose instance has versionOk and providerVisible.
C4_OnlyEligibleElected ==
    (electPc = "done" /\ primaryId # Undefined) =>
        \E k \in 1..Len(instances) :
            /\ instances[k][1] = primaryId
            /\ instances[k][2].versionOk = TRUE
            /\ instances[k][2].providerVisible = TRUE

\* C4 happens: an id is returned although an instance that may not be
\* elected (external, even) has the lowest address.
C4_Witness ==
    /\ electPc = "done"
    /\ primaryId # Undefined
    /\ \E j \in 1..Len(instances) :
        /\ j \notin Eligible
        /\ instances[j][2].external
        /\ \A k \in Eligible :
            /\ instances[j][2].privateIp # instances[k][2].privateIp
            /\ IpLeq(instances[j][2].privateIp, instances[k][2].privateIp)

\* C17: when no instance of the map is eligible (none has both versionOk
\* and providerVisible), or the map is empty, electPrimary resolves, and it
\* resolves with undefined rather than with some instance id.
C17_NoneEligibleGivesUndefined ==
    /\ electPc \in {"idle", "done", "off"}
    /\ (electPc = "done" /\ Eligible = {}) => primaryId = Undefined

\* C17 happens: electPrimary resolved on a map of two instances of which one
\* lacks versionOk and the other providerVisible.
C17_Witness ==
    /\ electPc = "done"
    /\ Eligible = {}
    /\ \E k, j \in 1..Len(instances) :
        /\ instances[k][2].versionOk /\ ~instances[k][2].providerVisible
        /\ ~instances[j][2].versionOk /\ instances[j][2].providerVisible

\* The iteration orders of the dictionary.
Orders == {f \in [1..Len(instances) -> 1..Len(instances)] :
            \A i, j \in 1..Len(instances) : i # j => f[i] # f[j]}
InOrder(f) == [i \in 1..Len(instances) |-> instances[f[i]]]

DistinctEligibleIps ==
    \A k, j \in Eligible :
        k # j => instances[k][2].privateIp # instances[j][2].privateIp

\* C18: for a map whose eligible instances have pairwise distinct private
\* IPs, the id electPrimary returns is the same for every iteration order of
\* the map, and a repeated call on the same map returns the same id.
C18_OrderIndependent ==
    (electPc = "done" /\ DistinctEligibleIps) =>
        \A f \in Orders : electPrimary(InOrder(f)) = primaryId

\* C18 happens: two eligible instances with distinct addresses, and the
\* elected one comes last in the map's order.
C18_Witness ==
    /\ electPc = "done"
    /\ DistinctEligibleIps
    /\ Cardinality(Eligible) >= 2
    /\ primaryId = instances[Len(instances)][1]

(***************************************************************************)
(* Properties of getInstances.                                             *)
(***************************************************************************)

\* The persisted records the pass read, by id.
PersistedIds == Range(Keys(instancesFromDb))
Persisted(id) == Get(instancesFromDb, id)

\* The id is in the live inventory: a group VM with an alive status.
Live(id) == \E i \in 1..Len(instanceGroupVms) :
                /\ instanceGroupVms[i].name = id
                /\ instanceGroupVms[i].status \in {"PROVISIONING", "STAGING", "RUNNING"}

UnexpiredPrimary(rec) == rec.isPrimary /\ rec.lastUpdate # "old"

DeleteIssued(folder, id) ==
    \E i \in 1..Len(deleteOps) : deleteOps[i].folder = folder /\ deleteOps[i].id = id

\* The pass has read the store, reconciled and issued its deletes.
Reconciled == giPc \in {"deleting", "resolved"}

\* C5: in getInstances, a persisted record whose id is not in the live
\* inventory and that is not an unexpired primary is absent from the returned
\* map, and a delete is issued for both instances/<id> and public_keys/<id>.
C5_StaleAbsentAndDeleted ==
    Reconciled =>
        \A id \in PersistedIds :
            (~Live(id) /\ ~UnexpiredPrimary(Persisted(id))) =>
                /\ ~Has(instancesOut, id)
                /\ DeleteIssued("instances/", id)
                /\ DeleteIssued("public_keys/", id)

\* C6: in getInstances, a persisted record whose id is not in the live
\* inventory but which is primary and not expired is kept in the returned map
\* with providerVisible = false, and no delete is issued for it.
C6_InvisiblePrimaryKept ==
    \A id \in PersistedIds :
        (~Live(id) /\ UnexpiredPrimary(Persisted(id))) =>
            /\ ~DeleteIssued("instances/", id)
            /\ ~DeleteIssued("public_keys/", id)
            /\ ~Contains(idsToDelete, id)
            /\ Reconciled =>
                /\ Has(instancesOut, id)
                /\ Get(instancesOut, id) = [Persisted(id) EXCEPT !.providerVisible = FALSE]

\* getInstances resolved with a map holding an invisible unexpired primary,
\* while another record of the same pass was deleted.
C6_Witness ==
    /\ giPc = "resolved"
    /\ Len(deleteOps) > 0
    /\ \E id \in PersistedIds :
        /\ ~Live(id) /\ UnexpiredPrimary(Persisted(id))
        /\ Get(instancesOut, id).providerVisible = FALSE

\* C7: every record of the map getInstances returns that has
\* providerVisible = false is a persisted record with isPrimary = true that
\* is not expired; every other returned record has providerVisible = true.
C7_InvisibleOnlyIfPrimary ==
    giPc = "resolved" =>
        \A i \in 1..Len(instancesOut) :
            LET id == instancesOut[i][1]
                rec == instancesOut[i][2]
            IN  IF rec.providerVisible = FALSE
                THEN /\ id \in PersistedIds
                     /\ UnexpiredPrimary(Persisted(id))
                     /\ rec.isPrimary
                ELSE rec.providerVisible = TRUE

\* The returned map holds an invisible primary next to a record the store
\* held as invisible and the pass made visible.
C7_Witness ==
    /\ giPc = "resolved"
    /\ \E i \in 1..Len(instancesOut) : instancesOut[i][2].providerVisible = FALSE
    /\ \E i \in 1..Len(instancesOut) :
        LET id == instancesOut[i][1]
        IN  /\ id \in PersistedIds
            /\ Persisted(id).providerVisible = FALSE
            /\ instancesOut[i][2].providerVisible = TRUE

\* The VMs of the instance group, by index, and the ids the tag query gave.
GroupVms == 1..Len(instanceGroupVms)
ExternalIds == {externalVms[i].id : i \in 1..Len(externalVms)}

\* C19: every instance of the instance group whose status is PROVISIONING,
\* STAGING or RUNNING and whose VM metadata has a first network interface is
\* a key of the map getInstances returns, with providerVisible = true: the
\* persisted record when one exists, otherwise a record synthesized from the
\* VM metadata with the first NIC's private IP.  A group instance in any
\* other status is not treated as live: its persisted record is kept only
\* as an invisible unexpired primary, and none is synthesized for it.
C19_LiveGroupInstancesVisible ==
    giPc = "resolved" =>
        \A g \in GroupVms :
            LET vm == instanceGroupVms[g]
                id == vm.name
            IN  IF Live(id)
                THEN Len(vm.networkInterfaces) > 0 =>
                        /\ Has(instancesOut, id)
                        /\ Get(instancesOut, id).providerVisible = TRUE
                        /\ IF id \in PersistedIds
                           THEN Get(instancesOut, id)
                                    = [Persisted(id) EXCEPT !.providerVisible = TRUE]
                           ELSE /\ Get(instancesOut, id).privateIp
                                        = vm.networkInterfaces[1].networkIP
                                /\ ~Get(instancesOut, id).isPrimary
                ELSE id \notin ExternalIds =>
                        IF id \in PersistedIds /\ UnexpiredPrimary(Persisted(id))
                        THEN Get(instancesOut, id).providerVisible = FALSE
                        ELSE ~Has(instancesOut, id)

\* getInstances resolved with a record synthesized for a group VM in STAGING
\* next to the persisted record of a RUNNING one.
C19_Witness ==
    /\ giPc = "resolved"
    /\ \E g, h \in GroupVms :
        /\ instanceGroupVms[g].status = "STAGING"
        /\ instanceGroupVms[g].name \notin PersistedIds
        /\ Has(instancesOut, instanceGroupVms[g].name)
        /\ instanceGroupVms[h].status = "RUNNING"
        /\ instanceGroupVms[h].name \in PersistedIds
        /\ ~Persisted(instanceGroupVms[h].name).providerVisible

\* C20: when an external tag is supplied, every instance the tag query
\* returned is in the map getInstances returns with external = true and
\* providerVisible = true, whatever the persisted store holds under the same
\* id.
C20_ExternalAlwaysMarked ==
    (giPc = "resolved" /\ externalTag) =>
        \A id \in ExternalIds :
            /\ Has(instancesOut, id)
            /\ Get(instancesOut, id).external = TRUE
            /\ Get(instancesOut, id).providerVisible = TRUE

\* C36: in one getInstances pass, no instance id that is a key of the
\* returned map has its persisted record or public key deleted, or is queued
\* for deletion and licence revocation (the two queues are filled together),
\* in that same pass.
C36_ReturnedIsNotPurged ==
    Reconciled =>
        \A i \in 1..Len(instancesOut) :
            LET id == instancesOut[i][1]
            IN  /\ ~Contains(idsToDelete, id)
                /\ ~DeleteIssued("instances/", id)
                /\ ~DeleteIssued("public_keys/", id)

\* C21: a failed delete of a stale instance record or of its public key never
\* makes getInstances reject: the pass is never rejected while one of its
\* deletes has failed.
C21_FailedDeleteNeverRejects ==
    ~(giPc = "rejected" /\ SomeFailed(deleteOps))

\* The pass was rejected by one of its queries, not by a delete.
RejectedByQuery == giPc = "rejected" /\ ~SomeFailed(deleteOps)

\* C22: when the zone metadata, the instance-group listing, the external tag
\* query, the persisted-record listing or a VM metadata fetch fails,
\* getInstances rejects (it does not resolve with a map) and no delete of a
\* persisted record or public key has been issued in that pass.
C22_QueryFailureDeletesNothing ==
    RejectedByQuery =>
        /\ deleteOps = <<>>
        /\ \A id \in PersistedIds : Has(instanceFiles, id)

\* C22 happens: the metadata fetch of a missing VM failed after the
\* reconciliation had found a stale record to delete.
C22_Witness ==
    /\ RejectedByQuery
    /\ idsToDelete # <<>>
    /\ \E id \in PersistedIds : Contains(idsToDelete, id) /\ Has(instanceFiles, id)


(***************************************************************************)
(* Properties of primaryElected.                                           *)
(***************************************************************************)

PutsFor(id) == {i \in 1..Len(putOps) : putOps[i].id = id}

\* The persisted record is one primaryElected has to demote.
StalePrimary(id) == id # electedId /\ Persisted(id).isPrimary

\* C8: primaryElected(id) issues exactly one putInstance, with
\* isPrimary = false, for each persisted record whose id differs from the
\* elected id and whose isPrimary flag is set, and issues no write for the
\* elected id's record or for any record that is not flagged primary.
C8_DemotesExactlyStalePrimaries ==
    /\ \A i \in 1..Len(putOps) :
        /\ putOps[i].id \in PersistedIds
        /\ StalePrimary(putOps[i].id)
        /\ putOps[i].instance = [Persisted(putOps[i].id) EXCEPT !.isPrimary = FALSE]
    /\ pePc = "resolved" =>
        \A id \in PersistedIds :
            Cardinality(PutsFor(id)) = IF StalePrimary(id) THEN 1 ELSE 0

\* primaryElected resolved after demoting a stale primary, while the elected
\* id's own record is flagged primary and another record is not.
C8_Witness ==
    /\ pePc = "resolved"
    /\ Len(putOps) > 0
    /\ electedId \in PersistedIds /\ Persisted(electedId).isPrimary
    /\ \E id \in PersistedIds : id # electedId /\ ~Persisted(id).isPrimary

\* C23: primaryElected resolves without waiting for the demotion writes it
\* issued: whenever a putInstance of the transition is pending, or has failed
\* or succeeded, primaryElected has already resolved, and it stays resolved.
C23_ResolvesWithoutWaiting ==
    Len(putOps) > 0 => pePc = "resolved"

\* C23 happens: primaryElected has resolved while one demotion write is
\* still pending and another has failed.
C23_Witness ==
    /\ pePc = "resolved"
    /\ \E i \in 1..Len(putOps) : putOps[i].status = "inflight"
    /\ SomeFailed(putOps)

\* A step of setupTopicsAndSubscriptions is pending.
Provisioning ==
    pePc \in {"getTopics", "createTopics", "getSubscriptions", "createSubscription"}

\* C37: a demotion write issued by primaryElected never overwrites a version
\* of an instance record that another writer stored after primaryElected
\* read the record: when the write lands, the bucket still holds the record
\* as primaryElected read it (or the write's own content).
C37_NoLostUpdate ==
    [][\A i \in 1..Len(putOps) :
        (/\ i \in 1..Len(putOps')
         /\ putOps[i].status = "inflight"
         /\ putOps'[i].status = "ok")
            => Get(instanceFiles, putOps[i].id)
                 \in {Get(instancesFromDb, putOps[i].id), putOps[i].instance}]_vars

\* C24: a failure of channel provisioning (listing or creating the topics,
\* listing or creating the subscription) is not fatal to primaryElected: no
\* step taken while setupTopicsAndSubscriptions is pending rejects
\* primaryElected.
C24_ProvisioningFailureNotFatal ==
    [][Provisioning => pePc' # "rejected"]_vars

\* The subscription this call has to ensure.
WantedSubscription ==
    IF thisInstanceId = electedId
    THEN [topic |-> getJoinTopicName, name |-> <<"JOIN_", thisInstanceId>>]
    ELSE [topic |-> getSyncTopicName, name |-> <<"SYNC_COMPLETE_", thisInstanceId>>]

\* setupTopicsAndSubscriptions has handled the listing of the subscriptions.
SubscriptionsListed ==
    pePc \in {"createSubscription", "getInstancesFromDb", "resolved"}

\* C25: setupTopicsAndSubscriptions creates at most one subscription per
\* call, and only when the listing lacks it: JOIN_<instanceId> on the join
\* topic if and only if this instance is the elected primary, otherwise
\* SYNC_COMPLETE_<instanceId> on the sync-complete topic; when the listing
\* holds the subscription none is created.
C25_OneSubscriptionWhenLacking ==
    /\ Len(createSubscriptionOps) <= 1
    /\ \A i \in 1..Len(createSubscriptionOps) :
        LET op == createSubscriptionOps[i]
        IN  /\ [topic |-> op.topic, name |-> op.name] = WantedSubscription
            /\ op.status # "ok" => WantedSubscription \notin subscriptions
    /\ SubscriptionsListed =>
        (Len(createSubscriptionOps) = 0 => WantedSubscription \in subscriptions)

\* C25 happens: a non-primary has created its sync subscription next to the
\* other instance's join and sync subscriptions.
C25_Witness ==
    /\ thisInstanceId # electedId
    /\ Len(createSubscriptionOps) = 1 /\ createSubscriptionOps[1].status = "ok"
    /\ Cardinality(subscriptions) = 3

(***************************************************************************)
(* Properties of PubSub.pull.                                              *)
(***************************************************************************)

\* pull has resolved with its messages array.
HandedOver == pullPc = "resolved" /\ Len(pullResult) = 1

BatchIds == [i \in 1..Len(receivedMessages) |-> receivedMessages[i].id]

\* C11: pull acknowledges every message of the pulled batch, and the
\* acknowledge request has completed, before any message of that batch is
\* handed to the caller; messages whose JSON decoding failed included.
C11_AcknowledgedBeforeHandedOver ==
    /\ pullPc \in {"pulling", "acking"} => Len(pullResult) = 0
    /\ (HandedOver /\ Len(receivedMessages) > 0) =>
        /\ Len(ackOps) = 1
        /\ ackOps[1].ackIds = BatchIds
        /\ ackOps[1].status # "inflight"
        /\ Len(pullResult[1]) = Len(receivedMessages)

\* pull handed over a batch that holds a message whose JSON did not parse,
\* next to one that decoded.
C11_Witness ==
    /\ HandedOver
    /\ \E i \in 1..Len(pullResult[1]) : ~pullResult[1][i].defined
    /\ \E i \in 1..Len(pullResult[1]) : pullResult[1][i].defined
    /\ ackOps[1].status = "ok"

\* C12: delivery on a subscription is at-most-once: a message pull has
\* returned to its caller is never returned again by a later pull on the
\* same subscription, also when the acknowledge request of the first pull
\* fails.
C12_AtMostOnce ==
    \A p, r \in 1..Len(handed) :
        p < r => Range(handed[p]) \cap Range(handed[r]) = {}

(***************************************************************************)
(* Properties of getMessages, sendMessage and the PubSub client.           *)
(***************************************************************************)

\* C26: on one PubSub client the initialization (the fetch of the project id
\* and of the token) is started at most once over any sequence of
\* operations, also when operations start concurrently before the first
\* initialization has completed.
C26_InitializedAtMostOnce ==
    initRuns <= 1

\* The subscriptions of the actions getMessages was called with.
RequestedSubscriptions ==
    {<<"SYNC_COMPLETE_", thisInstanceId>> :
        a \in {x \in Range(msgCall.actions) : x = "SYNC_COMPLETE"}}
    \cup {<<"JOIN_", thisInstanceId>> :
        a \in {x \in Range(msgCall.actions) : x = "ADD_TO_CLUSTER"}}

\* The messages the pulls of the call resolved with, in the order of the
\* pulls; a pull that failed contributes none.
PulledMessages ==
    LET done == SelectSeq(psOps, LAMBDA op : op.value.defined)
    IN  Concat([i \in 1..Len(done) |-> done[i].value.messages])

AddressedTo(message, id) ==
    /\ message.defined
    /\ "toInstanceId" \in DOMAIN message.value
    /\ message.value.toInstanceId = id

\* C29: getMessages pulls only the subscriptions of the requested actions;
\* when it resolves and options.toInstanceId is given, it returns exactly the
\* pulled messages whose toInstanceId equals it, and when options is given
\* without toInstanceId it returns every pulled message.
C29_ReturnsAddressedMessages ==
    msgCall.fn = "getMessages" =>
        /\ \A i \in 1..Len(psOps) :
            psOps[i].fn = "pull" /\ psOps[i].name \in RequestedSubscriptions
        /\ \A name \in RequestedSubscriptions :
            \E i \in 1..Len(psOps) : psOps[i].name = name
        /\ (msgPc = "resolved" /\ msgCall.options.given) =>
            IF "toInstanceId" \in DOMAIN msgCall.options
            THEN msgResult = SelectSeq(PulledMessages,
                     LAMBDA m : AddressedTo(m, msgCall.options.toInstanceId))
            ELSE msgResult = PulledMessages

\* C29 happens: getMessages for both actions with a toInstanceId resolved
\* with some of the pulled messages and left out one for another instance.
C29_Witness ==
    /\ msgCall.fn = "getMessages" /\ msgPc = "resolved"
    /\ Len(psOps) = 2
    /\ "toInstanceId" \in DOMAIN msgCall.options
    /\ Len(msgResult) > 0
    /\ \E i \in 1..Len(PulledMessages) :
        /\ PulledMessages[i].defined
        /\ ~AddressedTo(PulledMessages[i], msgCall.options.toInstanceId)

\* getMessages has settled on a batch holding a message that did not decode.
SettledWithUndecoded ==
    /\ msgCall.fn = "getMessages" /\ msgPc \in {"resolved", "rejected"}
    /\ msgCall.options.given
    /\ \E i \in 1..Len(PulledMessages) : ~PulledMessages[i].defined

\* C38: a pulled message whose JSON decoding fails does not cost the rest of
\* its batch: getMessages still resolves, with the other pulled messages
\* that pass the toInstanceId filter.
C38_UndecodedMessageSparesBatch ==
    SettledWithUndecoded =>
        /\ msgPc = "resolved"
        /\ \A i \in 1..Len(PulledMessages) :
            LET m == PulledMessages[i]
            IN  (/\ m.defined
                 /\ ("toInstanceId" \in DOMAIN msgCall.options
                        => AddressedTo(m, msgCall.options.toInstanceId)))
                => Contains(msgResult, m)

\* C30: sendMessage resolves only when the message has been published to
\* the topic of its action (the join topic for add-to-cluster, the
\* sync-complete topic for sync-complete); it does not resolve when the
\* initialization or the publish request failed.
C30_ResolvedMeansPublished ==
    (msgCall.fn = "sendMessage" /\ msgPc = "resolved") =>
        \E k \in 1..Len(outbox) :
            /\ outbox[k].call = msgCalls
            /\ outbox[k].message.action = msgCall.action
            /\ outbox[k].message.toInstanceId = msgCall.options.toInstanceId
            /\ outbox[k].topic = IF msgCall.action = "ADD_TO_CLUSTER"
                                 THEN <<"JOIN_", instanceGroup>>
                                 ELSE <<"SYNC_COMPLETE_", instanceGroup>>

(***************************************************************************)
(* Properties of storeUcs.                                                 *)
(***************************************************************************)

\* deleteOldestObjects has handled the listing and its metadata.
RetentionDecided ==
    /\ ucsPc \in {"deleting", "resolved"} \/ Len(ucsDeleteOps) > 0
    /\ Len(ucsListing) > 0

DeletedNames == {ucsDeleteOps[i].name : i \in 1..Len(ucsDeleteOps)}

\* <<year, month, day>> a is not after b.
NotAfter(a, b) ==
    \/ a[1] < b[1]
    \/ a[1] = b[1] /\ a[2] < b[2]
    \/ a[1] = b[1] /\ a[2] = b[2] /\ a[3] <= b[3]

\* C27: after storeUcs has written the backup, with n objects in the listing
\* of backup/ a delete is issued for exactly max(0, n - maxCopies) of them,
\* none when n <= maxCopies, no deleted object is newer than one that is
\* kept, and when storeUcs resolves the min(n, maxCopies) newest remain.
C27_OldestBeyondMaxCopiesDeleted ==
    RetentionDecided =>
        LET n == Len(ucsListing)
            kept == SelectSeq(ucsListing, LAMBDA f : f.name \notin DeletedNames)
        IN  /\ Len(ucsDeleteOps) = IF n > maxCopies THEN n - maxCopies ELSE 0
            /\ Cardinality(DeletedNames) = Len(ucsDeleteOps)
            /\ \A f \in Range(ucsListing), g \in Range(kept) :
                f.name \in DeletedNames => NotAfter(f.updated, g.updated)
            /\ Len(kept) = IF n > maxCopies THEN maxCopies ELSE n
            /\ ucsPc = "resolved" => backupFiles = kept

\* C27 happens: storeUcs resolved after deleting two of four objects, the
\* oldest of which was not the first of the listing, and kept the new one.
C27_Witness ==
    /\ ucsPc = "resolved"
    /\ Len(ucsListing) = 4 /\ maxCopies = 2
    /\ ucsListing[1].name \notin DeletedNames
    /\ \E i \in 1..Len(backupFiles) : backupFiles[i].name = ucsFile

(***************************************************************************)
(* Properties of tagPrimaryInstance.                                       *)
(***************************************************************************)

\* What getTags returned for the instance.
TagsRead(name) ==
    tagResponses[CHOOSE k \in 1..Len(tagResponses) : tagResponses[k][3].name = name]

CarriedTag(name) == <<"ig1", "-primary">> \in Range(TagsRead(name)[1])

SetTagsFor(name) == {i \in 1..Len(setTagsOps) : setTagsOps[i].name = name}

\* C28: after tagPrimaryInstance(primaryId, instances) has completed, setTags
\* has been called, with the fingerprint getTags returned, exactly once for
\* the elected instance when it lacked the <instanceGroup>-primary tag (its
\* tags plus the tag) and once for each other instance that carried the tag
\* (its tags without the tag), and for no instance whose tags agree with its
\* role; the VMs then carry the tag exactly on the elected instance.
C28_TagsFollowTheElection ==
    tagPc = "resolved" =>
        /\ \A i \in 1..Len(setTagsOps) : Contains(tagInstances, setTagsOps[i].name)
        /\ \A name \in Range(tagInstances) :
            LET read == TagsRead(name)
                adds == name = tagPrimaryIid /\ ~CarriedTag(name)
                removes == name # tagPrimaryIid /\ CarriedTag(name)
            IN  /\ Cardinality(SetTagsFor(name)) = IF adds \/ removes THEN 1 ELSE 0
                /\ \A i \in SetTagsFor(name) :
                    /\ setTagsOps[i].fingerprint = read[2]
                    /\ adds => setTagsOps[i].tags = read[1] \o <<(<<"ig1", "-primary">>)>>
                    /\ removes =>
                        setTagsOps[i].tags = SelectSeq(read[1],
                                                 LAMBDA t : t # <<"ig1", "-primary">>)
        /\ \A k \in 1..Len(vmTags) :
            Contains(tagInstances, vmTags[k].name) =>
                (<<"ig1", "-primary">> \in Range(vmTags[k].tags)
                    <=> vmTags[k].name = tagPrimaryIid)

\* C28 happens: tagPrimaryInstance has completed after tagging the elected
\* instance and untagging another, with a third instance left alone.
C28_Witness ==
    /\ tagPc = "resolved"
    /\ Len(tagInstances) = 3
    /\ Len(setTagsOps) = 2
    /\ \E i, j \in 1..Len(setTagsOps) :
        /\ setTagsOps[i].name = tagPrimaryIid
        /\ setTagsOps[j].name # tagPrimaryIid

(***************************************************************************)
(* Properties of getDataFromUri.                                           *)
(***************************************************************************)

\* gs://<bucket>/<key> read off the URI: the text after the prefix, the bucket
\* before its first slash and the key after it.
UriRest == SubSeq(uri, 2, Len(uri))
UriSlashes == {i \in 1..Len(UriRest) : UriRest[i] = "/"}
UriFirstSlash == CHOOSE i \in UriSlashes : \A j \in UriSlashes : i <= j
UriBucket == SubSeq(UriRest, 1, UriFirstSlash - 1)
UriKey == SubSeq(UriRest, UriFirstSlash + 1, Len(UriRest))
\* The URI starts with gs:// and the key segment that follows the bucket's
\* slash is not empty.
UriWellFormed ==
    /\ Len(uri) > 0 /\ uri[1] = "gs://"
    /\ UriSlashes # {}
    /\ UriKey # <<>> /\ UriKey[1] # "/"

\* C31: getDataFromUri maps gs://<bucket>/<key> to the pair (bucket, key),
\* the key being everything after the first slash following the bucket with
\* its internal slashes kept; a URI that does not start with gs://, or whose
\* key segment is empty, is rejected with an "Invalid URI" error and no
\* storage read is made.
C31_UriToBucketAndKey ==
    uriPc \notin {"off", "idle"} =>
        IF UriWellFormed
        THEN /\ Len(uriRead) = 1
             /\ uriRead[1].options.bucket = UriBucket
             /\ uriRead[1].fileName = UriKey
        ELSE /\ uriPc = "rejected"
             /\ uriResult.state = "rejected"
             /\ uriResult.message[1] = "Invalid URI"
             /\ uriRead = <<>>

(***************************************************************************)
(* Properties of getStoredUcs.                                             *)
(***************************************************************************)

\* No object under backup/ was updated after this one.
MostRecent(file) ==
    \A i \in 1..Len(storedFiles) :
        DateOf(storedFiles[i].updated) <= DateOf(file.updated)

\* C39: getStoredUcs resolves with the content of the most recently updated
\* object under backup/ when several backups exist, and with undefined when
\* the folder holds none.
C39_NewestBackupRestored ==
    gsPc = "resolved" =>
        IF Len(storedFiles) = 0
        THEN gsResult.data = Undefined
        ELSE \E i \in 1..Len(storedFiles) :
                /\ gsResult.data = storedFiles[i].name
                /\ MostRecent(storedFiles[i])

====
